---- MODULE Spec2Model ----
(***************************************************************************)
(* Region/surface statistics aggregation and row flattening of the Google  *)
(* Ads Transparency scraper (src/extractors/ads_parser.py,                 *)
(* src/extractors/utils_region.py, src/extractors/targeting_parser.py),    *)
(* the scraper's impression parser (src/extractors/google_ads_parser.py)   *)
(* and the retrying GET of src/extractors/helpers.py.                      *)
(*                                                                         *)
(* Python strings are sequences of one-character strings, compared by code *)
(* point.  Python values of mixed type (None / int / str) are tagged       *)
(* records [t, n, s].  RegionStat and SurfaceServingStat instances live in *)
(* two heaps (regionObjs, surfaceObjs) and lists hold object ids, because  *)
(* normalize_region_stats mutates the objects it is given.                 *)
(***************************************************************************)
EXTENDS Integers, Sequences, FiniteSets, TLC

\* ------------------------------------------------------------------------
\* Bounds of the explored inputs
\* ------------------------------------------------------------------------
MaxRegions == 3

MaxEntries == 2

MaxSurfaces == 2

MaxVariations == 2

MaxAds == 3

MaxRetries == 3

\* advertiser descriptors given to main
MaxAdvertisers == 2

\* ------------------------------------------------------------------------
\* Python strings
\* ------------------------------------------------------------------------
\* Characters in code point order (' ' 32, '+' 43, ',' 44, '-' 45, digits,
\* upper case, '_' 95, lower case).
Alphabet ==
  << " ", "+", ",", "-",
     "0", "1", "2", "3", "4", "5", "6", "7", "8", "9",
     "A", "B", "C", "D", "E", "F", "G", "H", "I", "J", "K", "L", "M",
     "N", "O", "P", "Q", "R", "S", "T", "U", "V", "W", "X", "Y", "Z",
     "_",
     "a", "b", "c", "d", "e", "f", "g", "h", "i", "j", "k", "l", "m",
     "n", "o", "p", "q", "r", "s", "t", "u", "v", "w", "x", "y", "z" >>

OrdTable ==
  [c \in {Alphabet[i] : i \in 1..Len(Alphabet)} |->
     CHOOSE i \in 1..Len(Alphabet) : Alphabet[i] = c]

\* ord(c), up to the gaps between the character classes
Ord(c) == OrdTable[c]

Digits == {"0", "1", "2", "3", "4", "5", "6", "7", "8", "9"}

DigitVal(c) == Ord(c) - Ord("0")

DigitChar(d) == Alphabet[Ord("0") + d]

\* str.__lt__ : lexicographic comparison by code point
RECURSIVE StrLess(_, _)
StrLess(a, b) ==
  IF b = <<>> THEN FALSE
  ELSE IF a = <<>> THEN TRUE
  ELSE IF Head(a) = Head(b) THEN StrLess(Tail(a), Tail(b))
  ELSE Ord(Head(a)) < Ord(Head(b))

\* tuple.__lt__ on (str, str) keys
TupleLess(k1, k2) ==
  IF k1[1] = k2[1] THEN StrLess(k1[2], k2[2]) ELSE StrLess(k1[1], k2[1])

\* str.strip() for the space character
RECURSIVE LStrip(_)
LStrip(s) == IF s # <<>> /\ Head(s) = " " THEN LStrip(Tail(s)) ELSE s

RECURSIVE RStrip(_)
RStrip(s) ==
  IF s # <<>> /\ s[Len(s)] = " " THEN RStrip(SubSeq(s, 1, Len(s) - 1)) ELSE s

Strip(s) == RStrip(LStrip(s))

\* decimal digits of a natural number
RECURSIVE NatToStr(_)
NatToStr(n) ==
  IF n < 10 THEN <<DigitChar(n)>>
  ELSE NatToStr(n \div 10) \o <<DigitChar(n % 10)>>

IntToStr(n) == IF n < 0 THEN <<"-">> \o NatToStr(-n) ELSE NatToStr(n)

\* ------------------------------------------------------------------------
\* Python values of the raw dictionaries
\* ------------------------------------------------------------------------
Absent == [t |-> "absent", n |-> 0, s |-> <<>>]

PyNone == [t |-> "none", n |-> 0, s |-> <<>>]

PyInt(n) == [t |-> "int", n |-> n, s |-> <<>>]

PyStr(s) == [t |-> "str", n |-> 0, s |-> s]

\* dict.get(key, default)
Get(v, default) == IF v.t = "absent" THEN default ELSE v

\* dict.get(key)
GetOrNone(v) == Get(v, PyNone)

\* bool(value)
Truthy(v) ==
  CASE v.t = "int" -> v.n # 0
    [] v.t = "str" -> v.s # <<>>
    [] OTHER -> FALSE

\* str(value)
ToStr(v) ==
  CASE v.t = "str" -> v.s
    [] v.t = "int" -> IntToStr(v.n)
    [] OTHER -> <<"N", "o", "n", "e">>

\* the digits part of an int() literal: digits, single underscores between
RECURSIVE DigitsOk(_, _)
DigitsOk(s, prevDigit) ==
  IF s = <<>> THEN prevDigit
  ELSE IF Head(s) \in Digits THEN DigitsOk(Tail(s), TRUE)
  ELSE IF Head(s) = "_" THEN prevDigit /\ DigitsOk(Tail(s), FALSE)
  ELSE FALSE

RECURSIVE DigitsVal(_, _)
DigitsVal(s, acc) ==
  IF s = <<>> THEN acc
  ELSE IF Head(s) = "_" THEN DigitsVal(Tail(s), acc)
  ELSE DigitsVal(Tail(s), 10 * acc + DigitVal(Head(s)))

\* int() of the literal after its sign; [ok |-> FALSE] stands for ValueError
IntOfBody(body, negative) ==
  IF body # <<>> /\ DigitsOk(body, FALSE)
  THEN [ok |-> TRUE,
        n |-> IF negative THEN -DigitsVal(body, 0) ELSE DigitsVal(body, 0)]
  ELSE [ok |-> FALSE, n |-> 0]

\* int() of a string without surrounding blanks
IntOfStripped(s) ==
  IF s # <<>> /\ Head(s) \in {"+", "-"}
  THEN IntOfBody(Tail(s), Head(s) = "-")
  ELSE IntOfBody(s, FALSE)

\* int(str)
IntOfStr(s) == IntOfStripped(Strip(s))

\* int(value): [ok |-> FALSE] stands for TypeError / ValueError
IntOf(v) ==
  CASE v.t = "int" -> [ok |-> TRUE, n |-> v.n]
    [] v.t = "str" -> IntOfStr(v.s)
    [] OTHER -> [ok |-> FALSE, n |-> 0]

\* ------------------------------------------------------------------------
\* ImpressionRange
\* ------------------------------------------------------------------------
ImpressionRange(lo, hi) == [lower_bound |-> lo, upper_bound |-> hi]

\* raw "impressions" value: t is "absent", "none" or "dict"
RawImpressions(lo, hi) == [t |-> "dict", lowerBound |-> lo, upperBound |-> hi]

NoImpressions == [t |-> "absent", lowerBound |-> Absent, upperBound |-> Absent]

NoneImpressions == [t |-> "none", lowerBound |-> Absent, upperBound |-> Absent]

\* value or 0
OrZero(v) == IF Truthy(v) THEN v ELSE PyInt(0)

\* an exception that leaves the function
Raised(exc) == [raised |-> exc]

\* the two int() calls without the except clause
BothOrZeroUncaught(lower_int, upper_int) ==
  IF lower_int.ok /\ upper_int.ok
  THEN ImpressionRange(lower_int.n, upper_int.n)
  ELSE Raised("ValueError")

\* the try / except around the two int() calls (lines 144-148)
BothOrZero(lower_int, upper_int) ==
  IF lower_int.ok /\ upper_int.ok
  THEN ImpressionRange(lower_int.n, upper_int.n)
  ELSE ImpressionRange(0, 0)

_parse_impression_range(impressions_raw) ==
  IF \/ impressions_raw.t # "dict"
     \/ (impressions_raw.lowerBound.t = "absent"
         /\ impressions_raw.upperBound.t = "absent")
  THEN ImpressionRange(0, 0)
  ELSE BothOrZero(IntOf(OrZero(Get(impressions_raw.lowerBound, PyInt(0)))),
                  IntOf(OrZero(Get(impressions_raw.upperBound, PyInt(0)))))

\* ------------------------------------------------------------------------
\* google_ads_parser._parse_impressions_range
\* ------------------------------------------------------------------------
\* the scraper's own ImpressionRange dataclass (lines 18-21)
ScrapedRange(lo, hi) == [lowerBound |-> lo, upperBound |-> hi]

\* val.replace(",", "")
RECURSIVE RemoveCommas(_)
RemoveCommas(s) ==
  IF s = <<>> THEN <<>>
  ELSE IF Head(s) = "," THEN RemoveCommas(Tail(s))
  ELSE <<Head(s)>> \o RemoveCommas(Tail(s))

\* the try / except of to_int (lines 154-157)
IntOrZero(int) == IF int.ok THEN int.n ELSE 0

\* to_int(val) for val: Optional[str]
to_int(val) ==
  IF ~Truthy(val) THEN 0 ELSE IntOrZero(IntOfStr(Strip(RemoveCommas(val.s))))

_parse_impressions_range(lower_val, upper_val) ==
  ScrapedRange(to_int(lower_val), to_int(upper_val))

\* ------------------------------------------------------------------------
\* Object heap: RegionStat and SurfaceServingStat instances by id
\* ------------------------------------------------------------------------
\* A heap is [regions |-> <<RegionStat>>, surfaces |-> <<SurfaceServingStat>>];
\* an id is an index.  RegionStat.surface_serving_stats is a list of surface
\* ids.  Each ImpressionRange belongs to exactly one object and is stored in it.
EmptyHeap == [regions |-> <<>>, surfaces |-> <<>>]

SurfaceServingStat(code, name, imp) ==
  [surface_code |-> code, surface_name |-> name, impressions |-> imp]

RegionStat(code, name, first, last, imp, surfaces) ==
  [region_code |-> code, region_name |-> name, first_shown |-> first,
   last_shown |-> last, impressions |-> imp, surface_serving_stats |-> surfaces]

\* raw list value: t is "absent", "none" or "list"
RawList(items) == [t |-> "list", items |-> items]

NoList == [t |-> "absent", items |-> <<>>]

\* the value of a surface list / region list (ids replaced by the objects)
SurfaceValues(heap, ids) == [i \in 1..Len(ids) |-> heap.surfaces[ids[i]]]

RegionValue(heap, id) ==
  [heap.regions[id] EXCEPT
     !.surface_serving_stats = SurfaceValues(heap, heap.regions[id].surface_serving_stats)]

RegionValues(heap, ids) == [i \in 1..Len(ids) |-> RegionValue(heap, ids[i])]

\* ------------------------------------------------------------------------
\* ads_parser._parse_surface_stats
\* ------------------------------------------------------------------------
\* the SurfaceServingStat built from one raw item (lines 158-165)
ParsedSurface(item) ==
  SurfaceServingStat(ToStr(Get(item.surfaceCode, PyStr(<<>>))),
                     ToStr(Get(item.surfaceName, PyStr(<<>>))),
                     _parse_impression_range(item.impressions))

\* the loop (lines 157-165); a new object gets the next free id
RECURSIVE ParseSurfaceItems(_, _, _)
ParseSurfaceItems(items, heap, ids) ==
  IF items = <<>> THEN [heap |-> heap, ids |-> ids]
  ELSE ParseSurfaceItems(Tail(items),
         [heap EXCEPT !.surfaces = Append(@, ParsedSurface(Head(items)))],
         Append(ids, Len(heap.surfaces) + 1))

_parse_surface_stats(surface_stats_raw, heap) ==
  IF surface_stats_raw.t # "list" \/ surface_stats_raw.items = <<>>
  THEN [heap |-> heap, ids |-> <<>>]
  ELSE ParseSurfaceItems(surface_stats_raw.items, heap, <<>>)

\* ------------------------------------------------------------------------
\* utils_region.normalize_region_stats
\* ------------------------------------------------------------------------
KeyOf(region) == <<region.region_code, region.region_name>>

\* first_shown kept by the merge (lines 39-40)
MergedFirstShown(existing_first, region_first) ==
  IF region_first # <<>> /\ (existing_first = <<>> \/ StrLess(region_first, existing_first))
  THEN region_first ELSE existing_first

\* last_shown with the comparison of first_shown
MergedLastShownEarliest(existing_last, region_last) ==
  IF region_last # <<>> /\ (existing_last = <<>> \/ StrLess(region_last, existing_last))
  THEN region_last ELSE existing_last

\* last_shown kept by the merge (lines 41-42)
MergedLastShown(existing_last, region_last) ==
  IF region_last # <<>> /\ (existing_last = <<>> \/ StrLess(existing_last, region_last))
  THEN region_last ELSE existing_last

\* by_key.get with the region_name alone as key
RECURSIVE ByKeyGetByName(_, _, _)
ByKeyGetByName(regions, by_key, key) ==
  IF by_key = <<>> THEN 0
  ELSE IF regions[Head(by_key)].region_name = key[2] THEN Head(by_key)
  ELSE ByKeyGetByName(regions, Tail(by_key), key)

\* by_key.get(key): id of the canonical region of the key, 0 for None
RECURSIVE ByKeyGet(_, _, _)
ByKeyGet(regions, by_key, key) ==
  IF by_key = <<>> THEN 0
  ELSE IF KeyOf(regions[Head(by_key)]) = key THEN Head(by_key)
  ELSE ByKeyGet(regions, Tail(by_key), key)

\* the merge with upper_bound increased by the lower bound of the new entry
MergeRegionLowerTwice(regions, existing, region) ==
  LET r1 == [regions EXCEPT ![existing].impressions.lower_bound =
                 @ + regions[region].impressions.lower_bound]
      r2 == [r1 EXCEPT ![existing].impressions.upper_bound =
                 @ + r1[region].impressions.lower_bound]
      r3 == [r2 EXCEPT ![existing].first_shown =
                 MergedFirstShown(@, r2[region].first_shown)]
      r4 == [r3 EXCEPT ![existing].last_shown =
                 MergedLastShown(@, r3[region].last_shown)]
  IN [r4 EXCEPT ![existing].surface_serving_stats =
          r4[existing].surface_serving_stats \o r4[region].surface_serving_stats]

\* the merge that also empties the surface list of the entry merged away
MergeRegionDrains(regions, existing, region) ==
  LET r1 == [regions EXCEPT ![existing].impressions.lower_bound =
                 @ + regions[region].impressions.lower_bound]
      r2 == [r1 EXCEPT ![existing].impressions.upper_bound =
                 @ + r1[region].impressions.upper_bound]
      r3 == [r2 EXCEPT ![existing].first_shown =
                 MergedFirstShown(@, r2[region].first_shown)]
      r4 == [r3 EXCEPT ![existing].last_shown =
                 MergedLastShown(@, r3[region].last_shown)]
  IN [r4 EXCEPT ![existing].surface_serving_stats =
          r4[existing].surface_serving_stats \o r4[region].surface_serving_stats,
        ![region].surface_serving_stats = <<>>]

\* the else branch of the first loop (lines 26-48), statement by statement
MergeRegion(regions, existing, region) ==
  LET r1 == [regions EXCEPT ![existing].impressions.lower_bound =
                 @ + regions[region].impressions.lower_bound]
      r2 == [r1 EXCEPT ![existing].impressions.upper_bound =
                 @ + r1[region].impressions.upper_bound]
      r3 == [r2 EXCEPT ![existing].first_shown =
                 MergedFirstShown(@, r2[region].first_shown)]
      r4 == [r3 EXCEPT ![existing].last_shown =
                 MergedLastShown(@, r3[region].last_shown)]
  IN [r4 EXCEPT ![existing].surface_serving_stats =
          r4[existing].surface_serving_stats \o r4[region].surface_serving_stats]

\* first loop (lines 19-48); by_key is the list of dict values in insertion order
RECURSIVE GroupRegions(_, _, _)
GroupRegions(region_stats, regions, by_key) ==
  IF region_stats = <<>> THEN [regions |-> regions, by_key |-> by_key]
  ELSE LET region == Head(region_stats)
           existing == ByKeyGet(regions, by_key, KeyOf(regions[region]))
       IN IF existing = 0
          THEN GroupRegions(Tail(region_stats), regions, Append(by_key, region))
          ELSE GroupRegions(Tail(region_stats),
                            MergeRegion(regions, existing, region), by_key)

\* merged_surfaces.get(code): id of the canonical surface, 0 for None
RECURSIVE MergedGet(_, _, _)
MergedGet(surfaces, merged_surfaces, code) ==
  IF merged_surfaces = <<>> THEN 0
  ELSE IF surfaces[Head(merged_surfaces)].surface_code = code THEN Head(merged_surfaces)
  ELSE MergedGet(surfaces, Tail(merged_surfaces), code)

\* the inner loop with the later surface object taking the place of the
\* canonical one after the sum
RECURSIVE MergeSurfacesLastWins(_, _, _)
MergeSurfacesLastWins(surface_list, surfaces, merged_surfaces) ==
  IF surface_list = <<>> THEN [surfaces |-> surfaces, merged |-> merged_surfaces]
  ELSE LET surface == Head(surface_list)
           existing_surface ==
             MergedGet(surfaces, merged_surfaces, surfaces[surface].surface_code)
       IN IF existing_surface = 0
          THEN MergeSurfacesLastWins(Tail(surface_list), surfaces,
                                     Append(merged_surfaces, surface))
          ELSE LET s1 == [surfaces EXCEPT ![surface].impressions.lower_bound =
                            @ + surfaces[existing_surface].impressions.lower_bound]
                   s2 == [s1 EXCEPT ![surface].impressions.upper_bound =
                            @ + s1[existing_surface].impressions.upper_bound]
               IN MergeSurfacesLastWins(Tail(surface_list), s2,
                    [x \in 1..Len(merged_surfaces) |->
                       IF merged_surfaces[x] = existing_surface THEN surface
                       ELSE merged_surfaces[x]])

\* inner loop over one region's surface list (lines 53-63)
RECURSIVE MergeSurfaces(_, _, _)
MergeSurfaces(surface_list, surfaces, merged_surfaces) ==
  IF surface_list = <<>> THEN [surfaces |-> surfaces, merged |-> merged_surfaces]
  ELSE LET surface == Head(surface_list)
           existing_surface ==
             MergedGet(surfaces, merged_surfaces, surfaces[surface].surface_code)
       IN IF existing_surface = 0
          THEN MergeSurfaces(Tail(surface_list), surfaces,
                             Append(merged_surfaces, surface))
          ELSE LET s1 == [surfaces EXCEPT ![existing_surface].impressions.lower_bound =
                            @ + surfaces[surface].impressions.lower_bound]
                   s2 == [s1 EXCEPT ![existing_surface].impressions.upper_bound =
                            @ + s1[surface].impressions.upper_bound]
               IN MergeSurfaces(Tail(surface_list), s2, merged_surfaces)

\* the second loop without the final assignment of the merged list
RECURSIVE MergeAllSurfacesNotStored(_, _)
MergeAllSurfacesNotStored(by_key, heap) ==
  IF by_key = <<>> THEN heap
  ELSE LET region == Head(by_key)
           m == MergeSurfaces(heap.regions[region].surface_serving_stats,
                              heap.surfaces, <<>>)
       IN MergeAllSurfacesNotStored(Tail(by_key),
            [regions |-> heap.regions, surfaces |-> m.surfaces])

\* second loop over by_key.values() (lines 51-65)
RECURSIVE MergeAllSurfaces(_, _)
MergeAllSurfaces(by_key, heap) ==
  IF by_key = <<>> THEN heap
  ELSE LET region == Head(by_key)
           m == MergeSurfaces(heap.regions[region].surface_serving_stats,
                              heap.surfaces, <<>>)
       IN MergeAllSurfaces(Tail(by_key),
            [regions |-> [heap.regions EXCEPT ![region].surface_serving_stats = m.merged],
             surfaces |-> m.surfaces])

\* the sort with region_code alone as sort key
RECURSIVE InsertByCode(_, _, _)
InsertByCode(regions, sorted, id) ==
  IF sorted = <<>> THEN <<id>>
  ELSE IF StrLess(regions[id].region_code, regions[Head(sorted)].region_code)
  THEN <<id>> \o sorted
  ELSE <<Head(sorted)>> \o InsertByCode(regions, Tail(sorted), id)

\* sorted(..., key=(region_code, region_name)): stable, ascending
RECURSIVE InsertByKey(_, _, _)
InsertByKey(regions, sorted, id) ==
  IF sorted = <<>> THEN <<id>>
  ELSE IF TupleLess(KeyOf(regions[id]), KeyOf(regions[Head(sorted)]))
  THEN <<id>> \o sorted
  ELSE <<Head(sorted)>> \o InsertByKey(regions, Tail(sorted), id)

RECURSIVE SortedByKey(_, _, _)
SortedByKey(regions, ids, sorted) ==
  IF ids = <<>> THEN sorted
  ELSE SortedByKey(regions, Tail(ids), InsertByKey(regions, sorted, Head(ids)))

\* the return statement (line 68) on the heap left by the two loops
SortedResult(by_key, merged) ==
  [heap |-> merged, out |-> SortedByKey(merged.regions, by_key, <<>>)]

\* the second loop and the return statement after the first loop
MergedAndSorted(grouped, surfaces) ==
  SortedResult(grouped.by_key,
    MergeAllSurfaces(grouped.by_key,
                     [regions |-> grouped.regions, surfaces |-> surfaces]))

normalize_region_stats(region_stats, heap) ==
  MergedAndSorted(GroupRegions(region_stats, heap.regions, <<>>), heap.surfaces)

\* ------------------------------------------------------------------------
\* ads_parser._parse_region_stats
\* ------------------------------------------------------------------------
\* the RegionStat built from one raw item and its parsed surface list
\* (lines 177-186)
ParsedRegion(item, surface_ids) ==
  RegionStat(ToStr(Get(item.regionCode, PyStr(<<>>))),
             ToStr(Get(item.regionName, PyStr(<<>>))),
             ToStr(Get(item.firstShown, PyStr(<<>>))),
             ToStr(Get(item.lastShown, PyStr(<<>>))),
             _parse_impression_range(item.impressions),
             surface_ids)

\* stats.append(RegionStat(...)): the heap after the surfaces of the item and
\* the item itself have been allocated
WithParsedRegion(item, surf) ==
  [surf.heap EXCEPT !.regions = Append(@, ParsedRegion(item, surf.ids))]

\* the loop building the fresh RegionStat list (lines 173-186)
RECURSIVE ParseRegionItems(_, _, _)
ParseRegionItems(items, heap, ids) ==
  IF items = <<>> THEN [heap |-> heap, ids |-> ids]
  ELSE ParseRegionItems(Tail(items),
         WithParsedRegion(Head(items),
           _parse_surface_stats(Head(items).surfaceServingStats, heap)),
         Append(ids, Len(heap.regions) + 1))

\* return normalize_region_stats(stats) (line 189); stats: the list handed
\* to it, out: the list returned
NormalizedStats(stats, norm) ==
  [heap |-> norm.heap, stats |-> stats, out |-> norm.out]

\* the call of normalize_region_stats on the list that was built
NormalizeBuilt(built) ==
  NormalizedStats(built.ids, normalize_region_stats(built.ids, built.heap))

_parse_region_stats(region_stats_raw, heap) ==
  IF region_stats_raw.t # "list" \/ region_stats_raw.items = <<>>
  THEN [heap |-> heap, stats |-> <<>>, out |-> <<>>]
  ELSE NormalizeBuilt(ParseRegionItems(region_stats_raw.items, heap, <<>>))

\* the values of a list of objects returned by ParseRegionItems
BuiltValues(built) == RegionValues(built.heap, built.ids)

\* the values of the fresh RegionStat list as handed to normalize_region_stats
ParsedRegionValues(region_stats_raw) ==
  IF region_stats_raw.t # "list" THEN <<>>
  ELSE BuiltValues(ParseRegionItems(region_stats_raw.items, EmptyHeap, <<>>))

\* ------------------------------------------------------------------------
\* targeting_parser
\* ------------------------------------------------------------------------
\* A raw mapping value: t is "absent", "none", "dict" or "other" (any value
\* that is not a dict); items is the dict's list of [key, value] pairs.
RawMap(items) == [t |-> "dict", items |-> items]

NoMap == [t |-> "absent", items |-> <<>>]

\* result[key] = value on an insertion-ordered dict of [k, v] pairs
RECURSIVE DictSet(_, _, _)
DictSet(d, k, v) ==
  IF d = <<>> THEN <<[k |-> k, v |-> v]>>
  ELSE IF Head(d).k = k THEN <<[k |-> k, v |-> v]>> \o Tail(d)
  ELSE <<Head(d)>> \o DictSet(Tail(d), k, v)

RECURSIVE BoolMapItems(_, _)
BoolMapItems(items, result) ==
  IF items = <<>> THEN result
  ELSE BoolMapItems(Tail(items),
         DictSet(result, ToStr(Head(items).key), Truthy(Head(items).value)))

_ensure_bool_map(raw) == IF raw.t # "dict" THEN <<>> ELSE BoolMapItems(raw.items, <<>>)

NoTargeting ==
  [t |-> "none", demographics |-> <<>>, geography |-> <<>>,
   contextual |-> <<>>, advertiser_list |-> <<>>]

TargetingRaised == [NoTargeting EXCEPT !.t = "raise"]

TargetingInfo(d, g, c, a) ==
  [t |-> "info", demographics |-> d, geography |-> g,
   contextual |-> c, advertiser_list |-> a]

\* raw "targetingCategory" value: t is "absent", "none", "dict" or "other"
RawCategory(d, g, c, a) ==
  [t |-> "dict", demographics |-> d, geography |-> g,
   contextual |-> c, advertiserList |-> a]

NoCategory == [RawCategory(NoMap, NoMap, NoMap, NoMap) EXCEPT !.t = "absent"]

\* raw "targeting" value: t is "absent", "none", "dict" or "other" (a truthy
\* value that is not a dict); extra: the dict holds keys besides
\* targetingCategory
RawTargeting(category, extra) ==
  [t |-> "dict", targetingCategory |-> category, extra |-> extra]

AbsentTargeting == [RawTargeting(NoCategory, FALSE) EXCEPT !.t = "absent"]

\* t = "raise": AttributeError from .get on a value that is not a dict
parse_targeting(targeting_raw) ==
  IF \/ targeting_raw.t \in {"absent", "none"}
     \/ (targeting_raw.t = "dict" /\ targeting_raw.targetingCategory.t = "absent"
         /\ ~targeting_raw.extra)
  THEN NoTargeting
  ELSE IF targeting_raw.t # "dict" THEN TargetingRaised
  ELSE LET category == targeting_raw.targetingCategory
       IN IF category.t = "absent"
          THEN TargetingInfo(<<>>, <<>>, <<>>, <<>>)
          ELSE IF category.t # "dict" THEN TargetingRaised
          ELSE TargetingInfo(_ensure_bool_map(category.demographics),
                             _ensure_bool_map(category.geography),
                             _ensure_bool_map(category.contextual),
                             _ensure_bool_map(category.advertiserList))

\* ------------------------------------------------------------------------
\* ads_parser: AdVariation, AdRecord
\* ------------------------------------------------------------------------
AdVariation(click_url, cta, description, image_url) ==
  [click_url |-> click_url, cta |-> cta, description |-> description,
   image_url |-> image_url]

RawVariation(clickUrl, cta, description, imageUrl) ==
  [clickUrl |-> clickUrl, cta |-> cta, description |-> description,
   imageUrl |-> imageUrl]

_parse_variations(variations_raw) ==
  IF variations_raw.t # "list" THEN <<>>
  ELSE [i \in 1..Len(variations_raw.items) |->
          AdVariation(GetOrNone(variations_raw.items[i].clickUrl),
                      GetOrNone(variations_raw.items[i].cta),
                      GetOrNone(variations_raw.items[i].description),
                      GetOrNone(variations_raw.items[i].imageUrl))]

AdRecord(ad_library_url, advertiser_id, advertiser_name, creative_id, format, first_shown, last_shown, preview_url, start_url, region_stats, targeting, variations) ==
  [ad_library_url |-> ad_library_url, advertiser_id |-> advertiser_id,
   advertiser_name |-> advertiser_name, creative_id |-> creative_id,
   format |-> format, first_shown |-> first_shown, last_shown |-> last_shown,
   preview_url |-> preview_url, start_url |-> start_url,
   region_stats |-> region_stats, targeting |-> targeting,
   variations |-> variations]

\* dict.update
Update(row, d) ==
  [k \in DOMAIN row \cup DOMAIN d |-> IF k \in DOMAIN d THEN d[k] ELSE row[k]]

\* sorted(list of str)
RECURSIVE InsertStr(_, _)
InsertStr(sorted, x) ==
  IF sorted = <<>> THEN <<x>>
  ELSE IF StrLess(x, Head(sorted)) THEN <<x>> \o sorted
  ELSE <<Head(sorted)>> \o InsertStr(Tail(sorted), x)

RECURSIVE SortedStrs(_, _)
SortedStrs(strs, sorted) ==
  IF strs = <<>> THEN sorted
  ELSE SortedStrs(Tail(strs), InsertStr(sorted, Head(strs)))

\* ",".join(list of str)
RECURSIVE Join(_)
Join(strs) ==
  IF strs = <<>> THEN <<>>
  ELSE IF Len(strs) = 1 THEN Head(strs)
  ELSE Head(strs) \o <<",">> \o Join(Tail(strs))

\* k for k, v in mapping.items() if v
RECURSIVE TrueKeys(_)
TrueKeys(items) ==
  IF items = <<>> THEN <<>>
  ELSE IF Head(items).v THEN <<Head(items).k>> \o TrueKeys(Tail(items))
  ELSE TrueKeys(Tail(items))

\* the join of the true keys in the mapping's own order
TargetingTrueUnsorted(mapping) == PyStr(Join(TrueKeys(mapping)))

\* ",".join(sorted(k for k, v in mapping.items() if v))
TargetingTrue(mapping) == PyStr(Join(SortedStrs(TrueKeys(mapping), <<>>)))

\* targeting_dict (lines 70-79)
TargetingDict(targeting) ==
  IF targeting.t = "info"
  THEN [targetingDemographicsTrue |-> TargetingTrue(targeting.demographics),
        targetingGeographyTrue |-> TargetingTrue(targeting.geography),
        targetingContextualTrue |-> TargetingTrue(targeting.contextual),
        targetingAdvertiserListTrue |-> TargetingTrue(targeting.advertiser_list)]
  ELSE <<>>

BaseDict(ad) ==
  [adLibraryUrl |-> PyStr(ad.ad_library_url),
   advertiserId |-> PyStr(ad.advertiser_id),
   advertiserName |-> PyStr(ad.advertiser_name),
   creativeId |-> PyStr(ad.creative_id),
   format |-> PyStr(ad.format),
   firstShown |-> PyStr(ad.first_shown),
   lastShown |-> PyStr(ad.last_shown),
   previewUrl |-> ad.preview_url,
   startUrl |-> ad.start_url]

RegionDict(region) ==
  [regionCode |-> PyStr(region.region_code),
   regionName |-> PyStr(region.region_name),
   regionFirstShown |-> PyStr(region.first_shown),
   regionLastShown |-> PyStr(region.last_shown),
   regionImpressionsLower |-> PyInt(region.impressions.lower_bound),
   regionImpressionsUpper |-> PyInt(region.impressions.upper_bound)]

SurfaceDict(surface) ==
  [surfaceCode |-> PyStr(surface.surface_code),
   surfaceName |-> PyStr(surface.surface_name),
   surfaceImpressionsLower |-> PyInt(surface.impressions.lower_bound),
   surfaceImpressionsUpper |-> PyInt(surface.impressions.upper_bound)]

VariationDict(variation) ==
  [variationClickUrl |-> variation.click_url,
   variationCta |-> variation.cta,
   variationDescription |-> variation.description,
   variationImageUrl |-> variation.image_url]

\* the synthetic region with a "-" placeholder as name
FlatRegionsPlaceholder(region_values) ==
  IF region_values # <<>> THEN region_values
  ELSE <<RegionStat(<<>>, <<"-">>, <<>>, <<>>, ImpressionRange(0, 0), <<>>)>>

\* self.region_stats or [RegionStat("", "", "", "", ImpressionRange(0, 0), [])]
FlatRegions(region_values) ==
  IF region_values # <<>> THEN region_values
  ELSE <<RegionStat(<<>>, <<>>, <<>>, <<>>, ImpressionRange(0, 0), <<>>)>>

\* the surface list without the synthetic substitute
FlatSurfacesAsIs(surface_values) == surface_values

\* region.surface_serving_stats or [SurfaceServingStat("", "", ImpressionRange(0, 0))]
FlatSurfaces(surface_values) ==
  IF surface_values # <<>> THEN surface_values
  ELSE <<SurfaceServingStat(<<>>, <<>>, ImpressionRange(0, 0))>>

\* self.variations or [AdVariation(None, None, None, None)]
FlatVariations(variations) ==
  IF variations # <<>> THEN variations
  ELSE <<AdVariation(PyNone, PyNone, PyNone, PyNone)>>

\* the row built in the innermost loop (lines 128-134)
FlatRow(base, region_dict, surface_dict, targeting_dict, variation_dict) ==
  Update(Update(Update(Update(Update(<<>>, base), region_dict), surface_dict),
                targeting_dict), variation_dict)

\* for variation in variations (lines 120-134)
VariationRows(base, region_dict, surface_dict, targeting_dict, variations) ==
  [v \in 1..Len(variations) |->
     FlatRow(base, region_dict, surface_dict, targeting_dict,
             VariationDict(variations[v]))]

\* the two inner loops exchanged: for variation ... for surface
RECURSIVE SurfaceRowsVariationMajor(_, _, _, _, _)
SurfaceRowsVariationMajor(base, region_dict, targeting_dict, surfaces, variations) ==
  IF variations = <<>> THEN <<>>
  ELSE [x \in 1..Len(surfaces) |->
          FlatRow(base, region_dict, SurfaceDict(surfaces[x]), targeting_dict,
                  VariationDict(Head(variations)))]
       \o SurfaceRowsVariationMajor(base, region_dict, targeting_dict, surfaces,
                                    Tail(variations))

\* for surface in surfaces (lines 112-134)
RECURSIVE SurfaceRows(_, _, _, _, _)
SurfaceRows(base, region_dict, targeting_dict, surfaces, variations) ==
  IF surfaces = <<>> THEN <<>>
  ELSE VariationRows(base, region_dict, SurfaceDict(Head(surfaces)),
                     targeting_dict, variations)
       \o SurfaceRows(base, region_dict, targeting_dict, Tail(surfaces), variations)

\* for region in regions (lines 94-134)
RECURSIVE RegionRows(_, _, _, _)
RegionRows(base, targeting_dict, regions, variations) ==
  IF regions = <<>> THEN <<>>
  ELSE SurfaceRows(base, RegionDict(Head(regions)), targeting_dict,
                   FlatSurfaces(Head(regions).surface_serving_stats), variations)
       \o RegionRows(base, targeting_dict, Tail(regions), variations)

to_flat_dicts(ad, heap) ==
  RegionRows(BaseDict(ad), TargetingDict(ad.targeting),
             FlatRegions(RegionValues(heap, ad.region_stats)),
             FlatVariations(ad.variations))

\* the record with the substituted variation list stored in it
SelfAfterStoringVariations(ad) == [ad EXCEPT !.variations = FlatVariations(@)]

\* self after to_flat_dicts: the substitutes are bound to the locals regions,
\* surfaces and variations (lines 82-92, 112-119); no statement of the method
\* assigns to self or to an object self holds
SelfAfterFlatDicts(ad) == ad

\* ------------------------------------------------------------------------
\* ads_parser.parse_ads
\* ------------------------------------------------------------------------
\* a raw ad: t is "dict" or "other" (an entry that is not a dict)
RawAd(adLibraryUrl, advertiserId, advertiserName, creativeId, format, firstShown, lastShown, previewUrl, startUrl, regionStats, targeting, variations) ==
  [t |-> "dict", adLibraryUrl |-> adLibraryUrl, advertiserId |-> advertiserId,
   advertiserName |-> advertiserName, creativeId |-> creativeId,
   format |-> format, firstShown |-> firstShown, lastShown |-> lastShown,
   previewUrl |-> previewUrl, startUrl |-> startUrl,
   regionStats |-> regionStats, targeting |-> targeting,
   variations |-> variations]

\* the AdRecord constructor call (lines 217-230)
BuiltAd(raw, region_stats, targeting) ==
  AdRecord(ToStr(Get(raw.adLibraryUrl, PyStr(<<>>))),
           ToStr(Get(raw.advertiserId, PyStr(<<>>))),
           ToStr(Get(raw.advertiserName, PyStr(<<>>))),
           ToStr(Get(raw.creativeId, PyStr(<<>>))),
           ToStr(Get(raw.format, PyStr(<<>>))),
           ToStr(Get(raw.firstShown, PyStr(<<>>))),
           ToStr(Get(raw.lastShown, PyStr(<<>>))),
           GetOrNone(raw.previewUrl),
           GetOrNone(raw.startUrl),
           region_stats, targeting, _parse_variations(raw.variations))

\* the try block for one entry, given its parsed regions and targeting;
\* ok = FALSE: an exception was raised and logged (lines 232-235)
TriedAd(raw, regions, targeting) ==
  IF raw.t # "dict" \/ targeting.t = "raise"
  THEN [ok |-> FALSE]
  ELSE [ok |-> TRUE, heap |-> regions.heap, stats |-> regions.stats,
        ad |-> BuiltAd(raw, regions.out, targeting)]

\* one iteration of the loop (lines 215-235): acc with the entry's record
\* appended, or acc itself when the construction raised
WithTriedAd(acc, idx, tried) ==
  IF tried.ok
  THEN [heap |-> tried.heap, parsed |-> Append(acc.parsed, tried.ad),
        stats |-> Append(acc.stats, tried.stats), src |-> Append(acc.src, idx)]
  ELSE acc

\* the loop left at the first entry whose construction raises
RECURSIVE ParseAdsLoopBreaks(_, _, _)
ParseAdsLoopBreaks(raws, idx, acc) ==
  IF idx > Len(raws) THEN acc
  ELSE IF ~TriedAd(raws[idx], _parse_region_stats(raws[idx].regionStats, acc.heap),
                   parse_targeting(raws[idx].targeting)).ok
  THEN acc
  ELSE ParseAdsLoopBreaks(raws, idx + 1,
         WithTriedAd(acc, idx,
           TriedAd(raws[idx], _parse_region_stats(raws[idx].regionStats, acc.heap),
                   parse_targeting(raws[idx].targeting))))

\* the loop of parse_ads; src[i] is the index in raw_ads of parsed[i]
RECURSIVE ParseAdsLoop(_, _, _)
ParseAdsLoop(raws, idx, acc) ==
  IF idx > Len(raws) THEN acc
  ELSE ParseAdsLoop(raws, idx + 1,
         WithTriedAd(acc, idx,
           TriedAd(raws[idx], _parse_region_stats(raws[idx].regionStats, acc.heap),
                   parse_targeting(raws[idx].targeting))))

parse_ads(raws) ==
  ParseAdsLoop(raws, 1,
    [heap |-> EmptyHeap, parsed |-> <<>>, stats |-> <<>>, src |-> <<>>])

\* ------------------------------------------------------------------------
\* helpers.http_get
\* ------------------------------------------------------------------------
\* last_exc = None
NoExc == [attempt |-> 0, kind |-> "None"]

\* no response has been received
NoResp == [attempt |-> 0, status_code |-> 0]

\* requests.Response.raise_for_status raises HTTPError for 4xx and 5xx
RaisesForStatus(status_code) == 400 <= status_code /\ status_code < 600

\* 200 <= resp.status_code < 300 (line 50)
IsSuccess(status_code) == 200 <= status_code /\ status_code < 300

\* the exception a request of the attempt ends with, NoExc when it ends
\* without one: sess.get raised (line 49) or raise_for_status did (line 55)
ExceptionOf(met, attempt_no) ==
  IF ~met.answered THEN [attempt |-> attempt_no, kind |-> "RequestException"]
  ELSE IF RaisesForStatus(met.status_code)
  THEN [attempt |-> attempt_no, kind |-> "HTTPError"]
  ELSE NoExc

\* what a sess.get call meets: a response with a status, or an exception
Response(status_code) == [answered |-> TRUE, status_code |-> status_code]

NoResponse == [answered |-> FALSE, status_code |-> 0]

\* the whole of http_get as a function of what its requests meet
\* (lines 40-73): the response returned, or the exception raised
RECURSIVE HttpGetLoop(_, _, _, _)
HttpGetLoop(mets, n, attempt_no, exc) ==
  IF ~(attempt_no < n)
  THEN IF exc = NoExc THEN Raised("AssertionError") ELSE Raised(exc.kind)
  ELSE LET met == mets[attempt_no + 1]
       IN IF met.answered /\ IsSuccess(met.status_code)
          THEN [attempt |-> attempt_no + 1, status_code |-> met.status_code]
          ELSE HttpGetLoop(mets, n, attempt_no + 1,
                 IF ExceptionOf(met, attempt_no + 1) = NoExc THEN exc
                 ELSE ExceptionOf(met, attempt_no + 1))

\* retries: int = 3 (line 30)
DefaultRetries == 3

http_get(mets) == HttpGetLoop(mets, DefaultRetries, 0, NoExc)

\* ------------------------------------------------------------------------
\* google_ads_parser.scrape_advertiser_ads and main.main
\* ------------------------------------------------------------------------
\* Identifiers are plain strings here, "" standing for None and for the
\* empty string, which the code treats alike (both are falsy).
GOOGLE_ADS_TRANSPARENCY_HOST == "adstransparency.google.com"

\* a URL as urlparse splits it: the host, and the non-empty path segments
Url(netloc, parts) == [netloc |-> netloc, parts |-> parts]

\* startUrl absent
NoUrl == Url("", <<>>)

\* the position of the first "advertiser" among the path segments
FirstAdvertiser(parts) ==
  CHOOSE k \in 1..Len(parts) :
    /\ parts[k] = "advertiser"
    /\ \A j \in 1..(k - 1) : parts[j] # "advertiser"

\* the host test of line 113 is a substring test; the hosts drawn here are
\* either the gallery host itself or a host that does not contain it
_extract_advertiser_id_from_url(url) ==
  IF url.netloc # GOOGLE_ADS_TRANSPARENCY_HOST THEN ""
  ELSE IF \E k \in 1..Len(url.parts) : url.parts[k] = "advertiser"
  THEN IF FirstAdvertiser(url.parts) + 1 <= Len(url.parts)
       THEN url.parts[FirstAdvertiser(url.parts) + 1]
       ELSE ""
  ELSE ""

\* an HTML text, as the data-creative-id values of its creative blocks
Html(blocks) == [present |-> TRUE, blocks |-> blocks]

\* htmlSnapshot absent or empty
NoHtml == [present |-> FALSE, blocks |-> <<>>]

\* an advertiser descriptor: the three keys scrape_advertiser_ads reads
Descriptor(advertiserId, startUrl, htmlSnapshot) ==
  [advertiserId |-> advertiserId, startUrl |-> startUrl,
   htmlSnapshot |-> htmlSnapshot]

\* one exported record, by the two fields that identify it
ScrapedAd(advertiser_id, creative_id) ==
  [advertiserId |-> advertiser_id, creativeId |-> creative_id]

\* one record per creative block with a non-empty data-creative-id
RECURSIVE _parse_html_creative_blocks(_, _)
_parse_html_creative_blocks(blocks, advertiser_id) ==
  IF blocks = <<>> THEN <<>>
  ELSE IF Head(blocks) = ""
  THEN _parse_html_creative_blocks(Tail(blocks), advertiser_id)
  ELSE <<ScrapedAd(advertiser_id, Head(blocks))>>
         \o _parse_html_creative_blocks(Tail(blocks), advertiser_id)

\* records[:max_ads] when max_ads is an int >= 0 (lines 331-332)
Truncated(records, max_ads) ==
  IF max_ads.t = "int" /\ max_ads.n >= 0
  THEN SubSeq(records, 1,
         IF max_ads.n < Len(records) THEN max_ads.n ELSE Len(records))
  ELSE records

\* a call that returned a list of records
Returned(records) == [records |-> records]

IsRaised(result) == "raised" \in DOMAIN result

\* mets: what the requests of http_get meet; page: the gallery page served.
\* The isinstance check of lines 296-297 cannot fail in main:
\* normalize_input_payload admits dictionaries only.
ScrapeWithId(advertiser_descriptor, advertiser_id, max_ads, mets, page) ==
  IF advertiser_id = "" THEN Raised("ValueError")
  ELSE IF advertiser_descriptor.htmlSnapshot.present
  THEN Returned(Truncated(
         _parse_html_creative_blocks(advertiser_descriptor.htmlSnapshot.blocks,
                                     advertiser_id), max_ads))
  ELSE IF IsRaised(http_get(mets)) THEN http_get(mets)
  ELSE Returned(Truncated(
         _parse_html_creative_blocks(page.blocks, advertiser_id), max_ads))

scrape_advertiser_ads(advertiser_descriptor, max_ads, mets, page) ==
  ScrapeWithId(advertiser_descriptor,
    IF advertiser_descriptor.advertiserId = ""
       /\ advertiser_descriptor.startUrl # NoUrl
    THEN _extract_advertiser_id_from_url(advertiser_descriptor.startUrl)
    ELSE advertiser_descriptor.advertiserId,
    max_ads, mets, page)

\* except Exception (main.py line 141): every exception but the ones that
\* derive from BaseException only
MainCatchesNarrow(exc) == exc = "ValueError"

MainCatches(exc) == exc # "KeyboardInterrupt"

\* the return code of main for an exception that reaches the handlers of
\* lines 153-158
MainHandles(exc) == IF exc = "KeyboardInterrupt" THEN 130 ELSE 1

\* ------------------------------------------------------------------------
\* State
\* ------------------------------------------------------------------------
VARIABLES
  raw_ads,   \* the raw ad dictionaries given to parse_ads
  pc,        \* "raw" before parse_ads has run, "parsed" after
  heap,      \* the RegionStat / SurfaceServingStat objects
  parsed,    \* the list of AdRecord returned by parse_ads
  stats,     \* per parsed ad: the list handed to normalize_region_stats
  given,     \* per parsed ad: the values of that list before the call
  once,      \* per parsed ad: the values of region_stats after parse_ads
  again,     \* ad index and list returned by a further normalize_region_stats
  rows,      \* ad index and list returned by the last to_flat_dicts
  impressions_raw,   \* argument of a call of _parse_impression_range
  impression_range,  \* what that call returned
  lower,             \* arguments of a call of _parse_impressions_range
  upper,
  impressions_range, \* what that call returned
  targeting_raw,     \* argument of a call of parse_targeting
  targeting_info,    \* what that call returned
  retries,           \* http_get: the retries argument
  attempt,           \* http_get: attempts started
  last_exc,          \* http_get: the exception caught last, NoExc for None
  resp,              \* http_get: the response received last, NoResp before
  http_pc,           \* http_get: "loop", "returned", "raised" or "assert"
  requests,          \* what each sess.get call met: a response or an exception
  sleeps,            \* the attempts after which time.sleep was called
  advertisers,       \* main: the normalized advertiser descriptors
  max_ads_per_advertiser, \* main: args.max_ads_per_advertiser
  adv_idx,           \* main: descriptors the for loop has taken
  all_records,       \* main: the records collected
  scraped,           \* main: each scrape_advertiser_ads call and its result
  exported,          \* main: each export_records call, and whether it raised
  main_pc,           \* main: "loop" or "returned"
  main_rc            \* main: the return code once returned

adVars == <<raw_ads, pc, heap, parsed, stats, given, once, again, rows>>

callVars ==
  <<impressions_raw, impression_range, lower, upper, impressions_range,
    targeting_raw, targeting_info>>

httpVars == <<retries, attempt, last_exc, resp, http_pc, requests, sleeps>>

mainVars ==
  <<advertisers, max_ads_per_advertiser, adv_idx, all_records, scraped,
    exported, main_pc, main_rc>>

vars == <<adVars, callVars, httpVars, mainVars>>

\* the result of a call that has not been made
NotCalled == [called |-> FALSE]

\* ------------------------------------------------------------------------
\* Inputs
\* ------------------------------------------------------------------------
SeqsUpTo(S, n) == UNION {[1..k -> S] : k \in 0..n}

Idx(seq) == 1..Len(seq)

US == <<"U", "S">>

DE == <<"D", "E">>

UnitedStates == <<"U", "n", "i", "t", "e", "d", " ", "S", "t", "a", "t", "e", "s">>

America == <<"A", "m", "e", "r", "i", "c", "a">>

Germany == <<"G", "e", "r", "m", "a", "n", "y">>

Date20230704 == <<"2", "0", "2", "3", "-", "0", "7", "-", "0", "4">>

Date20240517 == <<"2", "0", "2", "4", "-", "0", "5", "-", "1", "7">>

SEARCH == <<"S", "E", "A", "R", "C", "H">>

MAPS == <<"M", "A", "P", "S">>

Img == <<"i", "m", "g">>

Imp100to200 == RawImpressions(PyStr(<<"1", "0", "0">>), PyStr(<<"2", "0", "0">>))

Imp50to75 == RawImpressions(PyStr(<<"5", "0">>), PyStr(<<"7", "5">>))

Imp9to4 == RawImpressions(PyInt(9), PyInt(4))

RawRegion(code, name, first, last, impressions, surfaces) ==
  [regionCode |-> code, regionName |-> name, firstShown |-> first,
   lastShown |-> last, impressions |-> impressions,
   surfaceServingStats |-> surfaces]

RawSurface(code, name, impressions) ==
  [surfaceCode |-> code, surfaceName |-> name, impressions |-> impressions]

\* an ad whose fields other than the given ones are fixed
AdWith(regions, targeting, variations, previewUrl) ==
  RawAd(Absent, PyStr(<<"A", "R", "1">>), PyStr(<<"A", "c", "m", "e">>),
        PyStr(<<"C", "R", "7">>), PyStr(<<"I", "M", "A", "G", "E">>),
        PyStr(Date20230704), PyStr(Date20240517), previewUrl, Absent,
        RawList(regions), targeting, variations)

RegionKeys ==
  { <<PyStr(DE), PyStr(Germany)>>,
    <<PyStr(US), PyStr(UnitedStates)>>, <<PyStr(US), PyStr(America)>> }

\* regions that differ in identity key and impressions
ImpressionRegions ==
  { RawRegion(k[1], k[2], Absent, Absent, imp, NoList) :
      k \in RegionKeys, imp \in {Imp100to200, Imp50to75, Imp9to4} }

ShownDates == {Absent, PyStr(Date20230704), PyStr(Date20240517)}

\* regions of one identity key with every pair of shown dates, and regions of
\* a second key
DatedRegions ==
  { RawRegion(PyStr(US), PyStr(UnitedStates), first, last, Imp50to75, NoList) :
      first \in ShownDates, last \in ShownDates }
  \cup
  { RawRegion(PyStr(US), PyStr(America), shown, shown, Imp50to75, NoList) :
      shown \in ShownDates }

Search == <<"S", "e", "a", "r", "c", "h">>

Google == <<"G", "o", "o", "g", "l", "e">>

SearchAsSearch == RawSurface(PyStr(SEARCH), PyStr(Search), Imp100to200)

SearchAsGoogle == RawSurface(PyStr(SEARCH), PyStr(Google), Imp50to75)

Maps == RawSurface(PyStr(MAPS), PyStr(<<"M", "a", "p", "s">>), Imp9to4)

\* surface lists that name the SEARCH surface in one of two ways
SurfaceLists ==
  SeqsUpTo({SearchAsSearch, Maps}, MaxSurfaces)
  \cup SeqsUpTo({SearchAsGoogle, Maps}, MaxSurfaces)

\* regions of one identity key with every surface list, and regions of a
\* second key
SurfaceRegions ==
  { RawRegion(PyStr(US), PyStr(UnitedStates), PyStr(Date20230704),
              PyStr(Date20240517), Imp100to200, RawList(surfaces)) :
      surfaces \in SurfaceLists }
  \cup
  { RawRegion(PyStr(DE), PyStr(UnitedStates), Absent, Absent, Imp9to4, surfaces) :
      surfaces \in {NoList, RawList(<<SearchAsGoogle>>)} }

Min(a, b) == IF a < b THEN a ELSE b

Prefixes(seq, n) == {SubSeq(seq, 1, k) : k \in 0..Min(n, Len(seq))}

FlatSurfaceList ==
  << SearchAsSearch, Maps,
     RawSurface(PyStr(<<"P", "L", "A", "Y">>), Absent, NoImpressions) >>

\* regions of one identity key with 0..MaxSurfaces surfaces, and regions of a
\* second key with one surface or none
FlatRegionPool ==
  { RawRegion(PyStr(DE), PyStr(Germany), PyStr(Date20230704), Absent,
              Imp50to75, RawList(surfaces)) :
      surfaces \in Prefixes(FlatSurfaceList, MaxSurfaces) }
  \cup
  { RawRegion(PyStr(US), PyStr(UnitedStates), Absent, PyStr(Date20240517),
              Imp9to4, RawList(surfaces)) :
      surfaces \in Prefixes(FlatSurfaceList, 1) }

VariationList ==
  << RawVariation(PyStr(<<"u", "r", "l">>), PyStr(<<"B", "u", "y">>), Absent, PyNone),
     RawVariation(Absent, Absent, PyStr(<<"n", "e", "w">>), PyStr(Img)),
     RawVariation(Absent, PyStr(<<"G", "o">>), Absent, Absent) >>

Demographics ==
  RawMap(<< [key |-> PyStr(<<"g", "e", "n", "d", "e", "r">>), value |-> PyInt(1)],
            [key |-> PyStr(<<"a", "g", "e">>), value |-> PyInt(1)],
            [key |-> PyStr(<<"i", "n", "c", "o", "m", "e">>), value |-> PyInt(0)] >>)

Geography ==
  RawMap(<< [key |-> PyStr(US), value |-> PyStr(<<"y", "e", "s">>)],
            [key |-> PyStr(DE), value |-> PyStr(<<>>)] >>)

Contextual == RawMap(<< [key |-> PyInt(7), value |-> PyNone] >>)

OtherMap == [t |-> "other", items |-> <<>>]

TargetingPool ==
  { AbsentTargeting,
    RawTargeting(NoCategory, TRUE),
    RawTargeting(RawCategory(Demographics, Geography, Contextual, OtherMap), FALSE) }

\* no parser has been called on its own
NoCalls ==
  /\ impressions_raw = NoImpressions
  /\ impression_range = NotCalled
  /\ lower = PyNone
  /\ upper = PyNone
  /\ impressions_range = NotCalled
  /\ targeting_raw = AbsentTargeting
  /\ targeting_info = NotCalled

\* http_get has not been called
NoHttp ==
  /\ retries = 0
  /\ attempt = 0
  /\ last_exc = NoExc
  /\ resp = NoResp
  /\ http_pc = "idle"
  /\ requests = <<>>
  /\ sleeps = <<>>

\* main has not been called
NoMain ==
  /\ advertisers = <<>>
  /\ max_ads_per_advertiser = PyNone
  /\ adv_idx = 0
  /\ all_records = <<>>
  /\ scraped = <<>>
  /\ exported = <<>>
  /\ main_pc = "idle"
  /\ main_rc = 0

InitAds(ads) ==
  /\ raw_ads = ads
  /\ pc = "raw"
  /\ heap = EmptyHeap
  /\ parsed = <<>>
  /\ stats = <<>>
  /\ given = <<>>
  /\ once = <<>>
  /\ again = [ad |-> 0, out |-> <<>>]
  /\ rows = [ad |-> 0, rows |-> <<>>]

InitWith(ad) == InitAds(<<ad>>) /\ NoCalls /\ NoHttp /\ NoMain

InitImpressions ==
  \E regions \in SeqsUpTo(ImpressionRegions, MaxRegions) :
    InitWith(AdWith(regions, AbsentTargeting, NoList, Absent))

InitDates ==
  \E regions \in SeqsUpTo(DatedRegions, MaxRegions) :
    InitWith(AdWith(regions, AbsentTargeting, NoList, Absent))

InitSurfaces ==
  \E regions \in SeqsUpTo(SurfaceRegions, MaxEntries) :
    InitWith(AdWith(regions, AbsentTargeting, NoList, Absent))

ImpMinus3to7 == RawImpressions(PyInt(-3), PyInt(7))

\* impressions with negative numbers, negative numeric strings and text
SignedImpressions ==
  { ImpMinus3to7, Imp50to75,
    RawImpressions(PyStr(<<"2", "0", "0">>), PyStr(<<"-", "4">>)),
    RawImpressions(PyStr(<<"a", "b", "c">>), PyInt(7)) }

\* regions of one identity key with signed impressions, alone or on a surface
SignedRegions ==
  { RawRegion(PyStr(US), PyStr(UnitedStates), Absent, Absent, imp, NoList) :
      imp \in SignedImpressions }
  \cup
  { RawRegion(PyStr(US), PyStr(UnitedStates), Absent, Absent, Imp9to4,
              RawList(<<RawSurface(PyStr(SEARCH), PyStr(Search), imp)>>)) :
      imp \in SignedImpressions }

InitSigned ==
  \E regions \in SeqsUpTo(SignedRegions, MaxEntries) :
    InitWith(AdWith(regions, AbsentTargeting, NoList, Absent))

\* the two US entries of the aggregation example
ExampleRegions ==
  << RawRegion(PyStr(US), PyStr(UnitedStates), Absent, Absent, Imp100to200, NoList),
     RawRegion(PyStr(US), PyStr(UnitedStates), Absent, Absent, Imp50to75, NoList) >>

\* an entry of the raw list that is not a dict
NotADict ==
  [AdWith(<<>>, AbsentTargeting, NoList, Absent) EXCEPT !.t = "other"]

\* entries whose construction succeeds and entries whose construction raises
AdPool ==
  { NotADict,
    AdWith(ExampleRegions, AbsentTargeting, NoList, Absent),
    AdWith(<<RawRegion(PyStr(DE), PyStr(Germany), Absent, Absent, Imp9to4, NoList)>>,
           RawTargeting([NoCategory EXCEPT !.t = "none"], FALSE), NoList, Absent),
    AdWith(<<>>, RawTargeting(RawCategory(Demographics, NoMap, NoMap, NoMap), FALSE),
           RawList(SubSeq(VariationList, 1, 1)), PyStr(Img)) }

InitBatch ==
  \E ads \in SeqsUpTo(AdPool, MaxAds) : InitAds(ads) /\ NoCalls /\ NoHttp /\ NoMain

\* regions of one identity key that differ in their surface lists, and a
\* region of a second key
OrderRegions ==
  { RawRegion(PyStr(US), PyStr(UnitedStates), PyStr(Date20230704),
              PyStr(Date20240517), Imp100to200, RawList(surfaces)) :
      surfaces \in {<<>>, <<SearchAsSearch>>, <<SearchAsGoogle>>, <<Maps>>,
                    <<SearchAsSearch, Maps>>} }
  \cup
  { RawRegion(PyStr(DE), PyStr(Germany), Absent, PyStr(Date20230704), Imp9to4, NoList) }

\* the rearrangements of a list
Permuted(seq) ==
  { [x \in Idx(seq) |-> seq[p[x]]] :
      p \in {q \in [Idx(seq) -> Idx(seq)] : \A a, b \in Idx(seq) : a # b => q[a] # q[b]} }

\* two ads whose region entries are the same in two orders
InitOrder ==
  \E regions \in SeqsUpTo(OrderRegions, MaxEntries) :
    \E permuted \in Permuted(regions) :
      /\ InitAds(<< AdWith(regions, AbsentTargeting, NoList, Absent),
                    AdWith(permuted, AbsentTargeting, NoList, Absent) >>)
      /\ NoCalls
      /\ NoHttp
      /\ NoMain

InitFlat ==
  \E regions \in SeqsUpTo(FlatRegionPool, MaxEntries),
     targeting \in TargetingPool,
     variations \in Prefixes(VariationList, MaxVariations),
     previewUrl \in {Absent, PyStr(Img)} :
    InitWith(AdWith(regions, targeting, RawList(variations), previewUrl))

\* ------------------------------------------------------------------------
\* Operations
\* ------------------------------------------------------------------------
\* parsed = parse_ads(raw_ads)
Parsed(r) ==
  /\ heap' = r.heap
  /\ parsed' = r.parsed
  /\ stats' = r.stats
  /\ given' = [i \in 1..Len(r.parsed) |->
                 ParsedRegionValues(raw_ads[r.src[i]].regionStats)]
  /\ once' = [i \in 1..Len(r.parsed) |->
                RegionValues(r.heap, r.parsed[i].region_stats)]

ParseAds ==
  /\ pc = "raw"
  /\ Parsed(parse_ads(raw_ads))
  /\ pc' = "parsed"
  /\ UNCHANGED <<raw_ads, again, rows, callVars, httpVars, mainVars>>

Normalized(i, n) ==
  /\ heap' = n.heap
  /\ again' = [ad |-> i, out |-> n.out]

\* a caller applies normalize_region_stats to parsed[i].region_stats
Renormalize(i) ==
  /\ pc = "parsed"
  /\ Normalized(i, normalize_region_stats(parsed[i].region_stats, heap))
  /\ UNCHANGED <<raw_ads, pc, parsed, stats, given, once, rows, callVars, httpVars, mainVars>>

\* rows = parsed[i].to_flat_dicts()
ToFlatDicts(i) ==
  /\ pc = "parsed"
  /\ rows' = [ad |-> i, rows |-> to_flat_dicts(parsed[i], heap)]
  /\ parsed' = [parsed EXCEPT ![i] = SelfAfterFlatDicts(@)]
  /\ UNCHANGED <<raw_ads, pc, heap, stats, given, once, again, callVars, httpVars, mainVars>>

Next ==
  \/ ParseAds
  \/ \E i \in 1..Len(parsed) : Renormalize(i)
  \/ \E i \in 1..Len(parsed) : ToFlatDicts(i)

\* impression_range = _parse_impression_range(impressions_raw)
ParseImpressionRange ==
  /\ impression_range = NotCalled
  /\ impression_range' = _parse_impression_range(impressions_raw)
  /\ UNCHANGED <<adVars, httpVars, mainVars, impressions_raw, lower, upper, impressions_range,
                 targeting_raw, targeting_info>>

\* impressions_range = _parse_impressions_range(lower, upper)
ParseImpressionsRange ==
  /\ impressions_range = NotCalled
  /\ impressions_range' = _parse_impressions_range(lower, upper)
  /\ UNCHANGED <<adVars, httpVars, mainVars, impressions_raw, impression_range, lower, upper,
                 targeting_raw, targeting_info>>

NextRange == ParseImpressionRange \/ ParseImpressionsRange

\* targeting_info = parse_targeting(targeting_raw)
ParseTargeting ==
  /\ targeting_info = NotCalled
  /\ targeting_info' = parse_targeting(targeting_raw)
  /\ UNCHANGED <<adVars, httpVars, mainVars, impressions_raw, impression_range, lower, upper,
                 impressions_range, targeting_raw>>

NextTargeting == ParseTargeting

\* the bounds of a raw "impressions" mapping
BoundPool ==
  { Absent, PyNone, PyInt(0), PyInt(7), PyInt(-3), PyStr(<<>>),
    PyStr(<<"a", "b", "c">>), PyStr(<<"2", "0", "0">>), PyStr(<<"-", "4">>) }

\* the optional strings the scraper reads from a page
TextPool ==
  { PyNone, PyStr(<<>>), PyStr(<<"a", "b", "c">>), PyStr(<<"2", "0", "0">>),
    PyStr(<<"1", ",", "0", "0", "0">>), PyStr(<<" ", "7", " ">>) }

InitRange ==
  /\ InitAds(<<>>)
  /\ impressions_raw \in
       {NoneImpressions} \cup {RawImpressions(lo, hi) : lo \in BoundPool, hi \in BoundPool}
  /\ impression_range = NotCalled
  /\ lower \in TextPool
  /\ upper \in TextPool
  /\ impressions_range = NotCalled
  /\ targeting_raw = AbsentTargeting
  /\ targeting_info = NotCalled
  /\ NoHttp
  /\ NoMain

SpecRange == InitRange /\ [][NextRange]_vars

\* one iteration of the while loop (lines 44-68); met: the response, or
\* NoResponse when sess.get raised
HttpAttempt(met) ==
  /\ http_pc = "loop"
  /\ attempt < retries
  /\ attempt' = attempt + 1
  /\ requests' = Append(requests, met)
  /\ resp' = IF ~met.answered THEN resp
             ELSE [attempt |-> attempt + 1, status_code |-> met.status_code]
  /\ IF met.answered /\ IsSuccess(met.status_code)
     THEN /\ http_pc' = "returned"
          /\ UNCHANGED <<last_exc, sleeps>>
     ELSE /\ http_pc' = "loop"
          /\ IF ExceptionOf(met, attempt + 1) = NoExc
             THEN UNCHANGED <<last_exc, sleeps>>
             ELSE /\ last_exc' = ExceptionOf(met, attempt + 1)
                  /\ sleeps' = IF attempt + 1 < retries
                               THEN Append(sleeps, attempt + 1) ELSE sleeps
  /\ UNCHANGED <<adVars, callVars, mainVars, retries>>

\* after the loop (lines 70-73): the assertion, then raise last_exc
HttpGiveUp ==
  /\ http_pc = "loop"
  /\ ~(attempt < retries)
  /\ http_pc' = IF last_exc = NoExc THEN "assert" ELSE "raised"
  /\ UNCHANGED <<adVars, callVars, mainVars, retries, attempt, last_exc, resp,
               requests, sleeps>>

\* what a request can meet
StatusPool == {200, 204, 304, 404, 503}

NextHttp ==
  \/ \E met \in {Response(status) : status \in StatusPool} \cup {NoResponse} :
       HttpAttempt(met)
  \/ HttpGiveUp

InitHttp ==
  /\ InitAds(<<>>)
  /\ NoCalls
  /\ retries \in -1..MaxRetries
  /\ attempt = 0
  /\ last_exc = NoExc
  /\ resp = NoResp
  /\ http_pc = "loop"
  /\ requests = <<>>
  /\ sleeps = <<>>
  /\ NoMain

SpecHttp == InitHttp /\ [][NextHttp]_vars

\* one iteration of the for loop of main (lines 129-144): the call of
\* scrape_advertiser_ads, then extend, or the handler of line 141.
\* interrupted: a KeyboardInterrupt arrives during the call.
MainScrape(mets, page, interrupted) ==
  /\ main_pc = "loop"
  /\ adv_idx < Len(advertisers)
  /\ LET result == IF interrupted THEN Raised("KeyboardInterrupt")
                   ELSE scrape_advertiser_ads(advertisers[adv_idx + 1],
                          max_ads_per_advertiser, mets, page)
     IN /\ scraped' = Append(scraped,
                        [advertiser |-> advertisers[adv_idx + 1],
                         result |-> result])
        /\ adv_idx' = adv_idx + 1
        /\ IF ~IsRaised(result)
           THEN /\ all_records' = all_records \o result.records
                /\ UNCHANGED <<main_pc, main_rc>>
           ELSE IF MainCatches(result.raised)
           THEN UNCHANGED <<all_records, main_pc, main_rc>>
           ELSE /\ main_pc' = "returned"
                /\ main_rc' = MainHandles(result.raised)
                /\ UNCHANGED all_records
  /\ UNCHANGED <<adVars, callVars, httpVars, advertisers,
                 max_ads_per_advertiser, exported>>

\* after the loop (lines 146-158): export_records when there are records,
\* then return 0; failed: export_records raises (the output file cannot be
\* written) and the handler of line 156 returns 1
MainExport(failed) ==
  /\ main_pc = "loop"
  /\ adv_idx = Len(advertisers)
  /\ main_pc' = "returned"
  /\ IF all_records = <<>>
     THEN /\ main_rc' = 0
          /\ UNCHANGED exported
     ELSE /\ exported' = Append(exported,
                             [records |-> all_records, raised |-> failed])
          /\ main_rc' = IF failed THEN MainHandles("OSError") ELSE 0
  /\ UNCHANGED <<adVars, callVars, httpVars, advertisers,
                 max_ads_per_advertiser, adv_idx, all_records, scraped>>

\* what the requests of one scrape can meet
MetPool == {Response(200), Response(304), Response(503), NoResponse}

\* the gallery pages a scrape can be served
PagePool == {Html(<<>>), Html(<<"CR1">>), Html(<<"CR1", "", "CR2">>)}

NextMain ==
  \/ \E mets \in [1..DefaultRetries -> MetPool], page \in PagePool,
        interrupted \in BOOLEAN :
       MainScrape(mets, page, interrupted)
  \/ \E failed \in BOOLEAN : MainExport(failed)

GalleryUrl ==
  Url(GOOGLE_ADS_TRANSPARENCY_HOST, <<"advertiser", "AR2", "creative">>)

\* advertiser descriptors: fetched online by id, by the id in the start URL,
\* read from a snapshot, and two from which no id can be derived
DescriptorPool ==
  { Descriptor("AR1", NoUrl, NoHtml),
    Descriptor("", GalleryUrl, NoHtml),
    Descriptor("AR3", NoUrl, Html(<<"CR7", "CR8">>)),
    Descriptor("", Url("example.com", <<"advertiser", "AR4">>), NoHtml),
    Descriptor("", Url(GOOGLE_ADS_TRANSPARENCY_HOST, <<"advertiser">>),
               Html(<<"CR9">>)) }

InitMain ==
  /\ InitAds(<<>>)
  /\ NoCalls
  /\ NoHttp
  /\ advertisers \in SeqsUpTo(DescriptorPool, MaxAdvertisers)
  /\ max_ads_per_advertiser \in {PyNone, PyInt(0), PyInt(1)}
  /\ adv_idx = 0
  /\ all_records = <<>>
  /\ scraped = <<>>
  /\ exported = <<>>
  /\ main_pc = "loop"
  /\ main_rc = 0

SpecMain == InitMain /\ [][NextMain]_vars

NoneMap == [t |-> "none", items |-> <<>>]

\* what may be stored under a category key
MapPool == {NoMap, NoneMap, OtherMap, Demographics, Geography, Contextual}

\* what may be stored under targetingCategory
CategoryPool ==
  { [NoCategory EXCEPT !.t = t] : t \in {"absent", "none", "other"} }
  \cup
  { RawCategory(d, g, c, a) :
      d \in MapPool, g \in {NoMap, Geography}, c \in {NoneMap, Contextual},
      a \in {NoMap, OtherMap} }

InitTargeting ==
  /\ InitAds(<<>>)
  /\ impressions_raw = NoImpressions
  /\ impression_range = NotCalled
  /\ lower = PyNone
  /\ upper = PyNone
  /\ impressions_range = NotCalled
  /\ targeting_raw \in
       {AbsentTargeting, [AbsentTargeting EXCEPT !.t = "none"]}
       \cup {RawTargeting(category, extra) :
               category \in CategoryPool, extra \in BOOLEAN}
  /\ targeting_info = NotCalled
  /\ NoHttp
  /\ NoMain

SpecTargeting == InitTargeting /\ [][NextTargeting]_vars

SpecImpressions == InitImpressions /\ [][Next]_vars

SpecDates == InitDates /\ [][Next]_vars

SpecSurfaces == InitSurfaces /\ [][Next]_vars

SpecFlat == InitFlat /\ [][Next]_vars

SpecSigned == InitSigned /\ [][Next]_vars

SpecBatch == InitBatch /\ [][Next]_vars

SpecOrder == InitOrder /\ [][Next]_vars

\* ------------------------------------------------------------------------
\* Properties of the aggregation
\* ------------------------------------------------------------------------
Ads == 1..Len(parsed)

\* sum of f[x] over the finite index set S
RECURSIVE SumIdx(_, _)
SumIdx(f, S) ==
  IF S = {} THEN 0
  ELSE LET x == CHOOSE y \in S : TRUE IN f[x] + SumIdx(f, S \ {x})

\* the input entries of ad i that carry the identity key
WithKey(i, key) == {e \in Idx(given[i]) : KeyOf(given[i][e]) = key}

\* C1: after normalize_region_stats every identity key of the input occurs
\* exactly once in the output, and no surface_code occurs twice in the surface
\* list of an output region.
C1_UniqueKeysAndSurfaceCodes ==
  \A i \in Ads :
    /\ \A e \in Idx(given[i]) :
         Cardinality({j \in Idx(once[i]) : KeyOf(once[i][j]) = KeyOf(given[i][e])}) = 1
    /\ \A j \in Idx(once[i]) :
         \A a, b \in Idx(once[i][j].surface_serving_stats) :
           a # b => once[i][j].surface_serving_stats[a].surface_code
                    # once[i][j].surface_serving_stats[b].surface_code

\* two entries of one key with surface lists that repeat a code, and one entry
\* of another key
C1_Witness ==
  /\ pc = "parsed" /\ Len(parsed) = 1
  /\ Len(given[1]) = 2
  /\ KeyOf(given[1][1]) = KeyOf(given[1][2])
  /\ Len(given[1][1].surface_serving_stats) = 2
  /\ Len(given[1][2].surface_serving_stats) = 1
  /\ given[1][1].surface_serving_stats[1].surface_code
       = given[1][2].surface_serving_stats[1].surface_code
  /\ Len(once[1]) = 1
  /\ Len(once[1][1].surface_serving_stats) = 2

\* C2: the impressions of an aggregated region are the bound-wise sums over all
\* input entries of its identity key; the two US / United States entries with
\* ("100", "200") and ("50", "75") give one region with (150, 275).
C2_ImpressionsAreSummed ==
  \A i \in Ads :
    /\ \A e \in Idx(given[i]) :
         \E j \in Idx(once[i]) :
           /\ KeyOf(once[i][j]) = KeyOf(given[i][e])
           /\ once[i][j].impressions.lower_bound =
                SumIdx([x \in Idx(given[i]) |-> given[i][x].impressions.lower_bound],
                       WithKey(i, KeyOf(given[i][e])))
           /\ once[i][j].impressions.upper_bound =
                SumIdx([x \in Idx(given[i]) |-> given[i][x].impressions.upper_bound],
                       WithKey(i, KeyOf(given[i][e])))
    /\ raw_ads[1].regionStats.items = ExampleRegions =>
         /\ Len(once[i]) = 1
         /\ once[i][1].impressions = ImpressionRange(150, 275)

C2_Witness ==
  /\ pc = "parsed" /\ Len(parsed) = 1
  /\ raw_ads[1].regionStats.items = ExampleRegions
  /\ once[1][1].impressions = ImpressionRange(150, 275)

\* the non-empty values of a field among the input entries of a key
NonEmptyShown(i, key, field) ==
  {given[i][e][field] : e \in WithKey(i, key)} \ {<<>>}

\* C3: first_shown of an aggregated region is the lexicographically smallest
\* non-empty first_shown of the input entries of its key, last_shown the
\* largest non-empty last_shown; each is empty only if all those inputs are.
C3_ShownDatesAreWidened ==
  \A i \in Ads :
    \A e \in Idx(given[i]) :
      \E j \in Idx(once[i]) :
        LET key == KeyOf(given[i][e])
            firsts == NonEmptyShown(i, key, "first_shown")
            lasts == NonEmptyShown(i, key, "last_shown")
        IN /\ KeyOf(once[i][j]) = key
           /\ IF firsts = {} THEN once[i][j].first_shown = <<>>
              ELSE /\ once[i][j].first_shown \in firsts
                   /\ \A d \in firsts : ~StrLess(d, once[i][j].first_shown)
           /\ IF lasts = {} THEN once[i][j].last_shown = <<>>
              ELSE /\ once[i][j].last_shown \in lasts
                   /\ \A d \in lasts : ~StrLess(once[i][j].last_shown, d)

\* three entries of one key: the first without dates, then the later date,
\* then the earlier date
C3_Witness ==
  /\ pc = "parsed" /\ Len(parsed) = 1
  /\ Len(given[1]) = 3 /\ Len(once[1]) = 1
  /\ given[1][1].first_shown = <<>> /\ given[1][1].last_shown = <<>>
  /\ given[1][2].first_shown = Date20240517 /\ given[1][2].last_shown = Date20240517
  /\ given[1][3].first_shown = Date20230704 /\ given[1][3].last_shown = Date20230704
  /\ once[1][1].first_shown = Date20230704
  /\ once[1][1].last_shown = Date20240517

\* the surface lists of the input entries of a key, concatenated in input order
RECURSIVE ConcatSurfaces(_, _)
ConcatSurfaces(regions, key) ==
  IF regions = <<>> THEN <<>>
  ELSE (IF KeyOf(Head(regions)) = key THEN Head(regions).surface_serving_stats
        ELSE <<>>) \o ConcatSurfaces(Tail(regions), key)

Occurrences(all, code) == {x \in Idx(all) : all[x].surface_code = code}

FirstOccurrence(all, code) ==
  CHOOSE x \in Occurrences(all, code) : \A y \in Occurrences(all, code) : x <= y

\* C4: in an aggregated region the output surfaces are the surface codes of the
\* concatenated input surface lists in first-occurrence order; each carries the
\* surface_name of its first occurrence and the bound-wise sum of the
\* impressions of all occurrences of its code.
C4_SurfacesMergedByCode ==
  \A i \in Ads :
    \A j \in Idx(once[i]) :
      LET all == ConcatSurfaces(given[i], KeyOf(once[i][j]))
          out == once[i][j].surface_serving_stats
      IN /\ {out[a].surface_code : a \in Idx(out)} = {all[x].surface_code : x \in Idx(all)}
         /\ \A a, b \in Idx(out) :
              a < b => FirstOccurrence(all, out[a].surface_code)
                       < FirstOccurrence(all, out[b].surface_code)
         /\ \A a \in Idx(out) :
              /\ out[a].surface_name
                   = all[FirstOccurrence(all, out[a].surface_code)].surface_name
              /\ out[a].impressions.lower_bound =
                   SumIdx([x \in Idx(all) |-> all[x].impressions.lower_bound],
                          Occurrences(all, out[a].surface_code))
              /\ out[a].impressions.upper_bound =
                   SumIdx([x \in Idx(all) |-> all[x].impressions.upper_bound],
                          Occurrences(all, out[a].surface_code))

\* two entries of one key: MAPS, SEARCH "Google" and then SEARCH "Search", MAPS
C4_Witness ==
  /\ pc = "parsed" /\ Len(parsed) = 1
  /\ Len(given[1]) = 2 /\ Len(once[1]) = 1
  /\ Len(given[1][1].surface_serving_stats) = 2
  /\ Len(given[1][2].surface_serving_stats) = 2
  /\ given[1][1].surface_serving_stats[2].surface_name = Google
  /\ given[1][2].surface_serving_stats[1].surface_name = Search
  /\ once[1][1].surface_serving_stats =
       << SurfaceServingStat(MAPS, <<"M", "a", "p", "s">>, ImpressionRange(18, 8)),
          SurfaceServingStat(SEARCH, Google, ImpressionRange(150, 275)) >>

\* (region_code, region_name) <= (region_code, region_name), spelled out
KeyLeq(r1, r2) ==
  \/ StrLess(r1.region_code, r2.region_code)
  \/ /\ r1.region_code = r2.region_code
     /\ ~StrLess(r2.region_name, r1.region_name)

\* C5: the list returned by normalize_region_stats ascends in
\* (region_code, region_name), whatever the order of the input.
C5_OutputSortedByKey ==
  \A i \in Ads :
    \A a, b \in Idx(once[i]) : a < b => KeyLeq(once[i][a], once[i][b])

\* input in descending key order, output of three regions
C5_Witness ==
  /\ pc = "parsed" /\ Len(parsed) = 1
  /\ Len(given[1]) = 3
  /\ KeyOf(given[1][1]) = <<US, UnitedStates>>
  /\ KeyOf(given[1][2]) = <<US, America>>
  /\ KeyOf(given[1][3]) = <<DE, Germany>>
  /\ Len(once[1]) = 3
  /\ KeyOf(once[1][1]) = <<DE, Germany>>
  /\ KeyOf(once[1][2]) = <<US, America>>
  /\ KeyOf(once[1][3]) = <<US, UnitedStates>>

\* C6: normalize_region_stats applied to its own result returns the same
\* regions in the same order with the same impressions, dates and surfaces.
C6_AggregationIdempotent ==
  again.ad # 0 => RegionValues(heap, again.out) = once[again.ad]

\* second call on a result that came from merged regions and merged surfaces
C6_Witness ==
  /\ again.ad = 1
  /\ Len(given[1]) = 2
  /\ Len(again.out) = 1
  /\ Len(given[1][1].surface_serving_stats) = 2
  /\ Len(given[1][2].surface_serving_stats) = 2
  /\ Len(once[1][1].surface_serving_stats) = 1

\* ------------------------------------------------------------------------
\* Properties of the flattening
\* ------------------------------------------------------------------------
Max1(n) == IF n < 1 THEN 1 ELSE n

\* the regions of the flattened ad as to_flat_dicts reads them
FlatAdRegions == RegionValues(heap, parsed[rows.ad].region_stats)

SurfaceCount(region) == Len(region.surface_serving_stats)

\* C7: to_flat_dicts returns sum over r of max(1, S_r) * max(1, V) rows for an
\* ad with R >= 1 regions and max(1, V) rows for an ad without regions: at
\* least one row, exactly one for an ad without regions and variations, and 3
\* for 2 regions with 2 and 1 surfaces and 1 variation.
C7_RowCount ==
  rows.ad # 0 =>
    LET regs == FlatAdRegions
        V == Len(parsed[rows.ad].variations)
    IN /\ Len(regs) >= 1 =>
            Len(rows.rows) =
              SumIdx([r \in Idx(regs) |-> Max1(SurfaceCount(regs[r])) * Max1(V)], Idx(regs))
       /\ Len(regs) = 0 => Len(rows.rows) = Max1(V)
       /\ Len(rows.rows) >= 1
       /\ (Len(regs) = 0 /\ V = 0) => Len(rows.rows) = 1
       /\ (Len(regs) = 2 /\ SurfaceCount(regs[1]) = 2 /\ SurfaceCount(regs[2]) = 1
           /\ V = 1) => Len(rows.rows) = 3

C7_Witness ==
  /\ rows.ad = 1
  /\ Len(FlatAdRegions) = 2
  /\ SurfaceCount(FlatAdRegions[1]) = 2
  /\ SurfaceCount(FlatAdRegions[2]) = 1
  /\ Len(parsed[1].variations) = 1
  /\ Len(rows.rows) = 3

BaseKeys ==
  {"adLibraryUrl", "advertiserId", "advertiserName", "creativeId", "format",
   "firstShown", "lastShown", "previewUrl", "startUrl"}

RegionKeyNames ==
  {"regionCode", "regionName", "regionFirstShown", "regionLastShown",
   "regionImpressionsLower", "regionImpressionsUpper"}

SurfaceKeyNames ==
  {"surfaceCode", "surfaceName", "surfaceImpressionsLower", "surfaceImpressionsUpper"}

TargetingKeyNames ==
  {"targetingDemographicsTrue", "targetingGeographyTrue",
   "targetingContextualTrue", "targetingAdvertiserListTrue"}

VariationKeyNames ==
  {"variationClickUrl", "variationCta", "variationDescription", "variationImageUrl"}

\* C8: every row of to_flat_dicts has the same fixed key set: the ad metadata,
\* region*, surface*, the four targeting*True and the variation* keys.
C8_FixedKeySet ==
  rows.ad # 0 =>
    \A x \in Idx(rows.rows) :
      DOMAIN rows.rows[x] =
        BaseKeys \cup RegionKeyNames \cup SurfaceKeyNames \cup TargetingKeyNames
        \cup VariationKeyNames

EmptyOrZero == {PyStr(<<>>), PyInt(0)}

\* the row belongs to a region without surfaces (or to the synthetic region)
RowOfSurfacelessRegion(row) ==
  \/ FlatAdRegions = <<>>
  \/ \E r \in Idx(FlatAdRegions) :
       /\ FlatAdRegions[r].region_code = row.regionCode.s
       /\ FlatAdRegions[r].region_name = row.regionName.s
       /\ FlatAdRegions[r].surface_serving_stats = <<>>

\* the raw ad that parsed[rows.ad] was built from (one ad per run)
FlatRawAd == raw_ads[rows.ad]

\* C9 as stated: every missing value of a row (a field of a substituted
\* synthetic region, surface or variation, an absent optional ad field) is the
\* empty string or 0, never None.
C9_MissingIsEmptyOrZero ==
  rows.ad # 0 =>
    \A x \in Idx(rows.rows) :
      LET row == rows.rows[x]
      IN /\ FlatAdRegions = <<>> => \A k \in RegionKeyNames : row[k] \in EmptyOrZero
         /\ RowOfSurfacelessRegion(row) => \A k \in SurfaceKeyNames : row[k] \in EmptyOrZero
         /\ parsed[rows.ad].variations = <<>> =>
              \A k \in VariationKeyNames : row[k] \in EmptyOrZero
         /\ \A k \in {"adLibraryUrl", "previewUrl", "startUrl"} :
              FlatRawAd[k].t = "absent" => row[k] \in EmptyOrZero

\* C9 amended: the fields of a substituted synthetic region or surface are the
\* empty string (codes, names, shown dates) or 0 (impression bounds) and an
\* absent string field of the ad is the empty string; the four variation
\* fields of the substituted synthetic variation and an absent previewUrl or
\* startUrl are None.
C9_MissingIsEmptyZeroOrNone ==
  rows.ad # 0 =>
    \A x \in Idx(rows.rows) :
      LET row == rows.rows[x]
      IN /\ FlatAdRegions = <<>> =>
              /\ \A k \in {"regionCode", "regionName", "regionFirstShown",
                           "regionLastShown"} : row[k] = PyStr(<<>>)
              /\ \A k \in {"regionImpressionsLower", "regionImpressionsUpper"} :
                   row[k] = PyInt(0)
         /\ RowOfSurfacelessRegion(row) =>
              /\ \A k \in {"surfaceCode", "surfaceName"} : row[k] = PyStr(<<>>)
              /\ \A k \in {"surfaceImpressionsLower", "surfaceImpressionsUpper"} :
                   row[k] = PyInt(0)
         /\ parsed[rows.ad].variations = <<>> =>
              \A k \in VariationKeyNames : row[k] = PyNone
         /\ FlatRawAd.adLibraryUrl.t = "absent" => row.adLibraryUrl = PyStr(<<>>)
         /\ \A k \in {"previewUrl", "startUrl"} :
              FlatRawAd[k].t = "absent" => row[k] = PyNone

\* an ad without regions, variations and previewUrl has been flattened
C9_Witness ==
  /\ rows.ad = 1
  /\ FlatAdRegions = <<>>
  /\ parsed[1].variations = <<>>
  /\ FlatRawAd.previewUrl.t = "absent"
  /\ Len(rows.rows) = 1
  /\ rows.rows[1].regionImpressionsLower = PyInt(0)
  /\ rows.rows[1].surfaceCode = PyStr(<<>>)
  /\ rows.rows[1].variationCta = PyNone
  /\ rows.rows[1].previewUrl = PyNone

\* the codes of a category mapping whose value is true
TrueCodes(mapping) == {mapping[x].k : x \in {y \in Idx(mapping) : mapping[y].v}}

\* the codes of a set in ascending order
Ascending(codes) ==
  CHOOSE q \in [1..Cardinality(codes) -> codes] :
    \A a, b \in Idx(q) : a < b => StrLess(q[a], q[b])

\* the first n strings of q, a comma before each but the first
RECURSIVE CommaSeparated(_, _)
CommaSeparated(q, n) ==
  IF n = 0 THEN <<>>
  ELSE IF n = 1 THEN q[1]
  ELSE CommaSeparated(q, n - 1) \o <<",">> \o q[n]

ExpectedTrue(mapping) ==
  PyStr(CommaSeparated(Ascending(TrueCodes(mapping)), Cardinality(TrueCodes(mapping))))

\* C11: for an AdRecord with targeting, each targeting*True field of every row
\* is the comma-joined ascending list of exactly the codes whose value is true
\* in the corresponding category mapping (the empty string when none is), the
\* same in all rows of the ad.
C11_TargetingTrueFields ==
  (rows.ad # 0 /\ parsed[rows.ad].targeting.t = "info") =>
    \A x \in Idx(rows.rows) :
      LET row == rows.rows[x]
          targeting == parsed[rows.ad].targeting
      IN /\ row.targetingDemographicsTrue = ExpectedTrue(targeting.demographics)
         /\ row.targetingGeographyTrue = ExpectedTrue(targeting.geography)
         /\ row.targetingContextualTrue = ExpectedTrue(targeting.contextual)
         /\ row.targetingAdvertiserListTrue = ExpectedTrue(targeting.advertiser_list)

\* several rows of an ad whose demographics hold gender and age (true, in
\* this order) and income (false), and whose geography holds one true code
C11_Witness ==
  /\ rows.ad = 1
  /\ Len(rows.rows) >= 2
  /\ parsed[1].targeting.t = "info"
  /\ Len(parsed[1].targeting.demographics) = 3
  /\ \A x \in Idx(rows.rows) :
       /\ rows.rows[x].targetingDemographicsTrue =
            PyStr(<<"a", "g", "e", ",", "g", "e", "n", "d", "e", "r">>)
       /\ rows.rows[x].targetingGeographyTrue = PyStr(US)
       /\ rows.rows[x].targetingContextualTrue = PyStr(<<>>)
       /\ rows.rows[x].targetingAdvertiserListTrue = PyStr(<<>>)

\* the lists the nested iteration runs over
IterRegions ==
  IF FlatAdRegions = <<>>
  THEN <<RegionStat(<<>>, <<>>, <<>>, <<>>, ImpressionRange(0, 0), <<>>)>>
  ELSE FlatAdRegions

IterSurfaces(region) ==
  IF region.surface_serving_stats = <<>>
  THEN <<SurfaceServingStat(<<>>, <<>>, ImpressionRange(0, 0))>>
  ELSE region.surface_serving_stats

IterVariations ==
  IF parsed[rows.ad].variations = <<>>
  THEN <<AdVariation(PyNone, PyNone, PyNone, PyNone)>>
  ELSE parsed[rows.ad].variations

\* number of rows before the rows of region r
RowsBefore(r) ==
  SumIdx([q \in Idx(IterRegions) |-> Len(IterSurfaces(IterRegions[q])) * Len(IterVariations)],
         1..(r - 1))

Agrees(row, dict) == \A k \in DOMAIN dict : row[k] = dict[k]

\* C10: rows are ordered region-major, then by surface, then by variation: the
\* row of the (r, s, v) triple stands at position
\* RowsBefore(r) + (s - 1) * V + v and carries the fields of region r, of its
\* surface s and of variation v.
C10_RegionMajorOrder ==
  rows.ad # 0 =>
    /\ Len(rows.rows) = RowsBefore(Len(IterRegions) + 1)
    /\ \A r \in Idx(IterRegions) :
         \A s \in Idx(IterSurfaces(IterRegions[r])) :
           \A v \in Idx(IterVariations) :
             LET row == rows.rows[RowsBefore(r) + (s - 1) * Len(IterVariations) + v]
             IN /\ Agrees(row, RegionDict(IterRegions[r]))
                /\ Agrees(row, SurfaceDict(IterSurfaces(IterRegions[r])[s]))
                /\ Agrees(row, VariationDict(IterVariations[v]))

\* 2 regions with 2 and 0 surfaces and 2 variations: 6 rows
C10_Witness ==
  /\ rows.ad = 1
  /\ Len(FlatAdRegions) = 2
  /\ SurfaceCount(FlatAdRegions[1]) = 2
  /\ SurfaceCount(FlatAdRegions[2]) = 0
  /\ Len(parsed[1].variations) = 2
  /\ parsed[1].variations[1] # parsed[1].variations[2]
  /\ Len(rows.rows) = 6
  /\ rows.rows[2].surfaceCode = rows.rows[1].surfaceCode
  /\ rows.rows[2].variationCta # rows.rows[1].variationCta

\* ------------------------------------------------------------------------
\* Properties of the parsers
\* ------------------------------------------------------------------------
\* the value coerces with int(): it is present, not None and int() accepts it
Coerces(v) == v.t \in {"int", "str"} /\ IntOf(v).ok

\* the text coerces with to_int: it is a string whose digits, commas removed,
\* int() accepts
CoercesText(v) == v.t = "str" /\ IntOfStr(RemoveCommas(v.s)).ok

\* C12: the impression-range parsers never raise: _parse_impression_range
\* returns an ImpressionRange for None and for every mapping whose bounds are
\* absent, None, integers or strings, _parse_impressions_range returns one for
\* every pair of optional strings, and {"lowerBound": "abc", "upperBound":
\* None} gives (0, 0).
C12_RangeParsersNeverRaise ==
  /\ impression_range # NotCalled =>
       /\ DOMAIN impression_range = {"lower_bound", "upper_bound"}
       /\ impression_range.lower_bound \in Int
       /\ impression_range.upper_bound \in Int
       /\ impressions_raw.t = "none" => impression_range = ImpressionRange(0, 0)
       /\ impressions_raw = RawImpressions(PyStr(<<"a", "b", "c">>), PyNone) =>
            impression_range = ImpressionRange(0, 0)
  /\ impressions_range # NotCalled =>
       /\ DOMAIN impressions_range = {"lowerBound", "upperBound"}
       /\ impressions_range.lowerBound \in Int
       /\ impressions_range.upperBound \in Int

\* both parsers have returned, the first on {"lowerBound": "abc",
\* "upperBound": None}, the second on a non-numeric text and None
C12_Witness ==
  /\ impressions_raw = RawImpressions(PyStr(<<"a", "b", "c">>), PyNone)
  /\ impression_range = ImpressionRange(0, 0)
  /\ lower = PyStr(<<"a", "b", "c">>)
  /\ upper = PyNone
  /\ impressions_range = ScrapedRange(0, 0)

\* C13: impression bounds are coerced independently: when one bound fails to
\* coerce (non-numeric, missing or None) and the other is a valid integer, the
\* parser returns 0 for the failing bound and the integer of the valid one.
C13_BoundsCoercedIndependently ==
  /\ (impression_range # NotCalled /\ impressions_raw.t = "dict") =>
       /\ (Coerces(impressions_raw.lowerBound) /\ ~Coerces(impressions_raw.upperBound)) =>
            impression_range = ImpressionRange(IntOf(impressions_raw.lowerBound).n, 0)
       /\ (~Coerces(impressions_raw.lowerBound) /\ Coerces(impressions_raw.upperBound)) =>
            impression_range = ImpressionRange(0, IntOf(impressions_raw.upperBound).n)
  /\ impressions_range # NotCalled =>
       /\ (CoercesText(lower) /\ ~CoercesText(upper)) =>
            impressions_range = ScrapedRange(IntOfStr(RemoveCommas(lower.s)).n, 0)
       /\ (~CoercesText(lower) /\ CoercesText(upper)) =>
            impressions_range = ScrapedRange(0, IntOfStr(RemoveCommas(upper.s)).n)

NonNegative(range) == range.lower_bound >= 0 /\ range.upper_bound >= 0

\* every region of the list and every surface of its regions
AllNonNegative(regions) ==
  \A e \in Idx(regions) :
    /\ NonNegative(regions[e].impressions)
    /\ \A x \in Idx(regions[e].surface_serving_stats) :
         NonNegative(regions[e].surface_serving_stats[x].impressions)

\* C14: every ImpressionRange held by a parsed AdRecord, of a region or of a
\* surface, before and after aggregation, has lower_bound >= 0 and
\* upper_bound >= 0, for every raw input including negative numbers and
\* negative numeric strings.
C14_BoundsNonNegative ==
  \A i \in Ads : AllNonNegative(given[i]) /\ AllNonNegative(once[i])

\* the raw targeting value is a mapping with at least one key
TruthyMapping(raw) ==
  raw.t = "dict" /\ (raw.extra \/ raw.targetingCategory.t # "absent")

\* str(key) -> truthiness(value) of a sub-mapping, empty when the sub-value
\* is absent or not a mapping
ExpectedBoolMap(sub) ==
  IF sub.t # "dict" THEN <<>>
  ELSE [x \in Idx(sub.items) |->
          [k |-> ToStr(sub.items[x].key), v |-> Truthy(sub.items[x].value)]]

\* the sub-value stored under a category key, absent when targetingCategory
\* is not a mapping
SubValue(raw, name) ==
  IF raw.targetingCategory.t = "dict" THEN raw.targetingCategory[name] ELSE NoMap

\* C15: parse_targeting has no exception path: it returns None when the raw
\* input is absent or falsy, and for every truthy raw mapping, whatever is
\* stored under targetingCategory and under the four category keys, a
\* TargetingInfo whose categories are the maps str(key) -> truthiness(value) of
\* the sub-mappings, empty when a sub-value is absent or not a mapping.
C15_TargetingNeverRaises ==
  targeting_info # NotCalled =>
    IF TruthyMapping(targeting_raw)
    THEN targeting_info =
           TargetingInfo(ExpectedBoolMap(SubValue(targeting_raw, "demographics")),
                         ExpectedBoolMap(SubValue(targeting_raw, "geography")),
                         ExpectedBoolMap(SubValue(targeting_raw, "contextual")),
                         ExpectedBoolMap(SubValue(targeting_raw, "advertiserList")))
    ELSE targeting_info = NoTargeting

\* an AdRecord with its region objects in place of their ids
AdValue(h, ad) == [ad EXCEPT !.region_stats = RegionValues(h, @)]

\* parse_ads on the entry alone
Alone(raw) == parse_ads(<<raw>>)

\* the construction of an AdRecord from the entry succeeds
Constructs(raw) == Len(Alone(raw).parsed) = 1

\* the indices of the entries whose construction succeeds, in input order
Constructed ==
  LET Test(e) == Constructs(raw_ads[e])
  IN SelectSeq([e \in Idx(raw_ads) |-> e], Test)

\* C16: parse_ads never raises for any list of raw entries: it returns one
\* AdRecord per entry whose construction succeeds, in input order, and an entry
\* whose construction fails is omitted without changing the records produced
\* for the entries before and after it.
C16_FailedEntriesSkipped ==
  pc = "parsed" =>
    /\ Len(parsed) = Len(Constructed)
    /\ \A k \in Idx(parsed) :
         AdValue(heap, parsed[k]) =
           AdValue(Alone(raw_ads[Constructed[k]]).heap,
                   Alone(raw_ads[Constructed[k]]).parsed[1])

\* an entry that is not a dict between two entries that are parsed
C16_Witness ==
  /\ pc = "parsed"
  /\ Len(raw_ads) = 3
  /\ raw_ads[1].regionStats.items = ExampleRegions
  /\ raw_ads[2].t = "other"
  /\ raw_ads[3].t = "dict" /\ raw_ads[3].targeting.targetingCategory.t = "dict"
  /\ Len(parsed) = 2
  /\ Len(once[1]) = 1
  /\ parsed[2].targeting.t = "info"

\* ------------------------------------------------------------------------
\* Frame of the aggregation
\* ------------------------------------------------------------------------
\* the entries of the list handed to normalize_region_stats, as they are now
InputNow(i) == RegionValues(heap, stats[i])

\* entry e is the first entry of its identity key in the input of ad i
FirstOfKey(i, e) == \A x \in WithKey(i, KeyOf(given[i][e])) : e <= x

\* number of surfaces of the entries of the key before entry e
SurfacesBefore(i, e) ==
  SumIdx([x \in Idx(given[i]) |-> Len(given[i][x].surface_serving_stats)],
         {x \in WithKey(i, KeyOf(given[i][e])) : x < e})

\* surface x of entry e is the first of its code among the surfaces of the key
FirstOfCode(i, e, x) ==
  LET all == ConcatSurfaces(given[i], KeyOf(given[i][e]))
  IN FirstOccurrence(all, given[i][e].surface_serving_stats[x].surface_code)
       = SurfacesBefore(i, e) + x

\* C17 as stated: normalize_region_stats leaves every region and surface entry
\* of its input list unchanged, so a further call on the same input list
\* returns a result equal to the first call's.
C17_InputUnchanged ==
  pc = "parsed" =>
    \A i \in Ads :
      /\ InputNow(i) = given[i]
      /\ LET n == normalize_region_stats(stats[i], heap)
         IN RegionValues(n.heap, n.out) = once[i]

\* C17 amended: normalize_region_stats works in place.  The first entry of
\* each identity key is the region the result holds for that key; every other
\* entry keeps its impressions, shown dates and surface list, and each of its
\* surfaces that is not the first of its code among the key's surfaces keeps
\* its impressions.
C17_OnlyFirstEntriesChange ==
  pc = "parsed" =>
    \A i \in Ads :
      \A e \in Idx(given[i]) :
        IF FirstOfKey(i, e)
        THEN \E j \in Idx(once[i]) : once[i][j] = InputNow(i)[e]
        ELSE /\ InputNow(i)[e].impressions = given[i][e].impressions
             /\ InputNow(i)[e].first_shown = given[i][e].first_shown
             /\ InputNow(i)[e].last_shown = given[i][e].last_shown
             /\ Len(InputNow(i)[e].surface_serving_stats)
                  = Len(given[i][e].surface_serving_stats)
             /\ \A x \in Idx(given[i][e].surface_serving_stats) :
                  /\ InputNow(i)[e].surface_serving_stats[x].surface_code
                       = given[i][e].surface_serving_stats[x].surface_code
                  /\ InputNow(i)[e].surface_serving_stats[x].surface_name
                       = given[i][e].surface_serving_stats[x].surface_name
                  /\ ~FirstOfCode(i, e, x) =>
                       InputNow(i)[e].surface_serving_stats[x]
                         = given[i][e].surface_serving_stats[x]

\* two entries of one key; the first has become the aggregate, the second
\* keeps its two surfaces, of which MAPS is the first of its code
C17_Witness ==
  /\ pc = "parsed" /\ Len(parsed) = 1
  /\ Len(given[1]) = 2
  /\ KeyOf(given[1][1]) = KeyOf(given[1][2])
  /\ Len(given[1][1].surface_serving_stats) = 1
  /\ Len(given[1][2].surface_serving_stats) = 2
  /\ given[1][1].surface_serving_stats[1].surface_code = SEARCH
  /\ given[1][2].surface_serving_stats[1].surface_code = MAPS
  /\ given[1][2].surface_serving_stats[2].surface_code = SEARCH
  /\ InputNow(1)[1] # given[1][1]
  /\ InputNow(1)[1] = once[1][1]
  /\ InputNow(1)[2] = given[1][2]

\* C18: the result of the aggregator does not depend on the order of its
\* input: two permutations of the same region entries aggregate to the same
\* sequence of regions with the same impressions, shown dates and surface
\* lists (surface order, names and impressions).
C18_OrderIndependent ==
  (pc = "parsed" /\ Len(parsed) = 2) => once[1] = once[2]

\* ------------------------------------------------------------------------
\* Frame of the flattening
\* ------------------------------------------------------------------------
\* C19: to_flat_dicts leaves the AdRecord unchanged: region_stats, each
\* region's surface_serving_stats, variations and targeting are the same
\* before and after the call (no synthetic region, surface or variation is
\* stored), and a repeated call on the same ad returns an equal row list.
\* Only to_flat_dicts changes rows.
C19_FlatDictsLeavesRecord ==
  [][rows' # rows =>
       /\ parsed' = parsed
       /\ heap' = heap
       /\ \A i \in Ads : RegionValues(heap', parsed'[i].region_stats) = once[i]
       /\ (rows.ad # 0 /\ rows'.ad = rows.ad) => rows'.rows = rows.rows]_vars

\* an ad with one region without surfaces and without variations has been
\* flattened to one row with the substitutes, and still holds neither
C19_Witness ==
  /\ rows.ad = 1
  /\ Len(parsed[1].region_stats) = 1
  /\ heap.regions[parsed[1].region_stats[1]].surface_serving_stats = <<>>
  /\ parsed[1].variations = <<>>
  /\ Len(rows.rows) = 1
  /\ rows.rows[1].surfaceCode = PyStr(<<>>)
  /\ rows.rows[1].variationClickUrl = PyNone

\* ------------------------------------------------------------------------
\* Properties of http_get
\* ------------------------------------------------------------------------
Succeeded(met) == met.answered /\ IsSuccess(met.status_code)

\* C20: for retries >= 1 http_get ends after at most retries requests: it
\* returns the response of the first attempt with a 2xx status and issues no
\* request after it; when all retries attempts fail (exception or non-2xx
\* status) it raises the exception of the final attempt; it sleeps only
\* between attempts, never after the last one.
C20_HttpGetRetries ==
  retries >= 1 =>
    /\ Len(requests) <= retries
    /\ \A k \in Idx(requests) : Succeeded(requests[k]) => k = Len(requests)
    /\ (requests # <<>> /\ Succeeded(requests[Len(requests)])) =>
         /\ http_pc = "returned"
         /\ resp = [attempt |-> Len(requests),
                    status_code |-> requests[Len(requests)].status_code]
    /\ http_pc = "returned" =>
         (requests # <<>> /\ Succeeded(requests[Len(requests)]))
    /\ http_pc \notin {"loop", "returned"} =>
         /\ Len(requests) = retries
         /\ http_pc = "raised"
         /\ last_exc.attempt = retries
    /\ \A x \in Idx(sleeps) :
         /\ sleeps[x] < retries
         /\ \A y \in Idx(sleeps) : x < y => sleeps[x] < sleeps[y]

\* C21: whenever http_get leaves its loop and evaluates the final assertion
\* "last_exc is not None", an exception has been stored, whatever integer
\* the caller passed as retries (0 and negative values included).
C21_AssertionHolds ==
  http_pc \in {"assert", "raised"} => last_exc # NoExc

\* ------------------------------------------------------------------------
\* Properties of main
\* ------------------------------------------------------------------------
\* the descriptors the scrapes were called with, in call order
Attempted == [k \in Idx(scraped) |-> scraped[k].advertiser]

\* the records of the scrapes that returned, in call order
RECURSIVE RecordsOf(_)
RecordsOf(calls) ==
  IF calls = <<>> THEN <<>>
  ELSE IF IsRaised(Head(calls).result) THEN RecordsOf(Tail(calls))
  ELSE Head(calls).result.records \o RecordsOf(Tail(calls))

\* while main runs the descriptors are taken once each in input order and
\* all_records holds the records of the scrapes that returned
LoopInOrder ==
  /\ Len(scraped) <= Len(advertisers)
  /\ adv_idx = Len(scraped)
  /\ Attempted = SubSeq(advertisers, 1, Len(scraped))
  /\ all_records = RecordsOf(scraped)
  /\ main_pc = "loop" => exported = <<>>

\* export_records was called exactly when all_records is non-empty, once,
\* with all_records
ExportedOnce ==
  /\ (exported # <<>>) <=> (all_records # <<>>)
  /\ Len(exported) <= 1
  /\ \A k \in Idx(exported) : exported[k].records = all_records

\* C22 as stated: a failure while scraping one advertiser never aborts the
\* batch: every descriptor is attempted exactly once in input order,
\* all_records is the in-order concatenation of the records of the scrapes
\* that succeeded, export_records is called exactly when all_records is
\* non-empty, and main then returns 0.
C22_BatchNeverAborted ==
  /\ LoopInOrder
  /\ main_pc = "returned" =>
       /\ Attempted = advertisers
       /\ ExportedOnce
       /\ main_rc = 0

\* C22, amended: a scrape that raises an Exception never aborts the batch.
\* Unless a KeyboardInterrupt ends main with 130, every descriptor is
\* attempted exactly once in input order, all_records is the in-order
\* concatenation of the records of the scrapes that succeeded,
\* export_records is called exactly when all_records is non-empty, and main
\* returns 0 when export_records was not called or returned, and 1 when
\* export_records raised.
C22_OnlyInterruptOrExportFails ==
  /\ LoopInOrder
  /\ main_pc = "returned" =>
       IF main_rc = 130
       THEN /\ scraped # <<>>
            /\ scraped[Len(scraped)].result = Raised("KeyboardInterrupt")
            /\ exported = <<>>
       ELSE /\ Attempted = advertisers
            /\ \A k \in Idx(scraped) :
                 scraped[k].result # Raised("KeyboardInterrupt")
            /\ ExportedOnce
            /\ main_rc = IF \E k \in Idx(exported) : exported[k].raised
                         THEN 1 ELSE 0

\* main returned 0 after a batch whose first scrape raised and whose second
\* scrape returned records, which were exported
C22_Witness ==
  /\ main_pc = "returned"
  /\ main_rc = 0
  /\ Len(scraped) = 2
  /\ IsRaised(scraped[1].result)
  /\ ~IsRaised(scraped[2].result)
  /\ scraped[2].result.records # <<>>
  /\ exported = <<[records |-> scraped[2].result.records, raised |-> FALSE]>>

====
